---- MODULE Spec2Model ----
(***************************************************************************)
(* nightfeed (rss_site_bridge): the profile store, the per-profile refresh *)
(* and the refresh scheduler of src/rss_site_bridge/app.py.                *)
(*                                                                         *)
(* The SQLite database is the shared state (tables profiles, feed_items).  *)
(* Every SQL statement or committed transaction of the program is one      *)
(* atomic step; the Python code between two database accesses is local to  *)
(* the thread that runs it.  The scheduler thread (run_scheduler_loop) and *)
(* the request threads (Flask routes) interleave at these steps.           *)
(***************************************************************************)
EXTENDS Integers, Sequences, FiniteSets, TLC

(* ------------------------------ bounds -------------------------------- *)

\* The clock runs over 0..MaxTime, in minutes.
MaxTime == 2

\* The requests the web server receives in one run: each call of a route
\* counts one.
MaxRequests == 2

\* The item nodes of the page one extract_feed_entries call reads.
MaxNodes == 2

\* The terms and pairs of parentheses of a filter expression.
MaxSize == 4

\* The characters of a filter term and of a title matched against it.
MaxTerm == 3

\* The children of the parent of a link whose title is assembled.
MaxSiblings == 3

(* ------------------------------ inputs -------------------------------- *)

\* feed_title stands for the text columns of the configuration (feed_title,
\* source_url, the selectors, the filter rules, fetch_mode): every statement
\* of the store reads and writes them together.
\* parse_max_items accepts 1..100, parse_refresh_interval 0..1440
\* (0 is manual only).
FeedRequests ==
  {[feed_title |-> "A", max_items |-> 2, refresh_interval_minutes |-> 2],
   [feed_title |-> "B", max_items |-> 1, refresh_interval_minutes |-> 0]}

\* str(exc) of a failure extract_feed_entries raises as ValueError or
\* RuntimeError; one message stands for all of them.
ErrorMessages == {"Upstream HTTP error"}

(* ------------------------- text and timestamps ------------------------ *)

\* A timestamp column holds text: '' or the ISO text of an instant.  The text
\* is modelled as a sequence, <<>> for '' and <<t>> for the instant t.
EmptyText == <<>>

\* utcnow_text(): datetime.now(timezone.utc).isoformat()
utcnow_text(t) == <<t>>

\* datetime.fromisoformat(value), defined on non-empty text only
fromisoformat(value) == value[1]

Max(S) == CHOOSE x \in S : \A y \in S : y <= x

(* --------------------------- the database ----------------------------- *)

\* profiles   : the rows of table profiles, a function from the ids of the
\*              existing rows to the rows
\* next_id    : the id AUTOINCREMENT gives to the next profile
\* feed_items : the rows of table feed_items in the order of their ids
\* clock      : the wall clock (datetime.now), in minutes
\* th         : the control state and the local variables of every thread
\* requests   : the number of requests received so far
\* run        : the one call a single-call specification follows step by
\*              step (extract_feed_entries, the filters): its position, its
\*              arguments and its locals
\* Column updated_at, which every UPDATE sets and no code reads, is left out.
VARIABLES profiles, next_id, feed_items, clock, th, requests, run,
          stop_event

vars ==
  <<profiles, next_id, feed_items, clock, th, requests, run, stop_event>>

\* An INSERT that stamps the creation as a refresh; no code of the program.
NewProfileRowStamped(id, config, now) ==
  [id |-> id,
   feed_token |-> id,
   feed_title |-> config.feed_title,
   max_items |-> config.max_items,
   refresh_interval_minutes |-> config.refresh_interval_minutes,
   active |-> TRUE,
   last_status |-> "idle",
   last_error |-> "",
   last_refreshed_at |-> now,
   refresh_anchor_at |-> now,
   created_at |-> now]

\* INSERT INTO profiles (...) VALUES (?, ..., 1, 'idle', '', '', ?, ?, ?)
NewProfileRow(id, config, now) ==
  [id |-> id,
   feed_token |-> id,
   feed_title |-> config.feed_title,
   max_items |-> config.max_items,
   refresh_interval_minutes |-> config.refresh_interval_minutes,
   active |-> TRUE,
   last_status |-> "idle",
   last_error |-> "",
   last_refreshed_at |-> EmptyText,
   refresh_anchor_at |-> now,
   created_at |-> now]

\* An editing UPDATE that leaves last_error alone; no code of the program.
UpdateProfileRowKeepingError(row, config, now) ==
  [row EXCEPT !.feed_title = config.feed_title,
              !.max_items = config.max_items,
              !.refresh_interval_minutes = config.refresh_interval_minutes,
              !.last_status = "idle"]

\* An editing UPDATE that moves the anchor as the enabling one does; no code
\* of the program.
UpdateProfileRowAnchored(row, config, now) ==
  [row EXCEPT !.feed_title = config.feed_title,
              !.max_items = config.max_items,
              !.refresh_interval_minutes = config.refresh_interval_minutes,
              !.last_status = "idle",
              !.last_error = "",
              !.refresh_anchor_at = now]

\* UPDATE profiles SET <the configuration>, last_status = 'idle',
\* last_error = '', updated_at = ? WHERE id = ?
UpdateProfileRow(row, config, now) ==
  [row EXCEPT !.feed_title = config.feed_title,
              !.max_items = config.max_items,
              !.refresh_interval_minutes = config.refresh_interval_minutes,
              !.last_status = "idle",
              !.last_error = ""]

\* UPDATE profiles SET updated_at = ?, last_status = 'idle', last_error = ''
PurgeProfileRow(row, now) ==
  [row EXCEPT !.last_status = "idle", !.last_error = ""]

\* An enabling UPDATE that leaves refresh_anchor_at alone; no code of the
\* program.
EnableProfileRowUnanchored(row, now) ==
  [row EXCEPT !.active = TRUE, !.last_status = "idle", !.last_error = ""]

\* UPDATE profiles SET active = 1, last_status = 'idle', last_error = '',
\* refresh_anchor_at = ?, updated_at = ?
EnableProfileRow(row, now) ==
  [row EXCEPT !.active = TRUE, !.last_status = "idle", !.last_error = "",
              !.refresh_anchor_at = now]

\* A disabling UPDATE that moves the anchor as the enabling one does; no code
\* of the program.
DisableProfileRowAnchored(row, now) ==
  [row EXCEPT !.active = FALSE, !.last_status = "disabled", !.last_error = "",
              !.refresh_anchor_at = now]

\* UPDATE profiles SET active = 0, last_status = 'disabled', last_error = '',
\* updated_at = ?
DisableProfileRow(row, now) ==
  [row EXCEPT !.active = FALSE, !.last_status = "disabled", !.last_error = ""]

\* UPDATE profiles SET last_status = 'error', last_error = ?,
\* last_refreshed_at = ?, refresh_anchor_at = ?, updated_at = ?
ErrorProfileRow(row, message, now) ==
  [row EXCEPT !.last_status = "error", !.last_error = message,
              !.last_refreshed_at = now, !.refresh_anchor_at = now]

\* UPDATE profiles SET last_status = 'ok', last_error = '',
\* last_refreshed_at = ?, refresh_anchor_at = ?, updated_at = ?
OkProfileRow(row, now) ==
  [row EXCEPT !.last_status = "ok", !.last_error = "",
              !.last_refreshed_at = now, !.refresh_anchor_at = now]

\* UPDATE profiles SET ... WHERE id = ?: the row with that id becomes `row`;
\* no row is written when the profile is gone.
UpdateWhereId(ps, id, row) ==
  IF id \in DOMAIN ps THEN [ps EXCEPT ![id] = row] ELSE ps

\* DELETE FROM profiles WHERE id = ?
DeleteProfileRow(ps, id) == [i \in DOMAIN ps \ {id} |-> ps[i]]

\* A DELETE FROM feed_items that matches no row; no code of the program.
DeleteNoItems(items, id) == items

\* DELETE FROM feed_items WHERE profile_id = ?
DeleteItemsOf(items, id) == SelectSeq(items, LAMBDA it : it.profile_id # id)

ItemsOf(items, id) == SelectSeq(items, LAMBDA it : it.profile_id = id)

\* The index of the row of feed_items with the key (profile_id, link), 0 when
\* there is none.
ItemIndex(items, id, link) ==
  IF \E i \in 1..Len(items) : items[i].profile_id = id /\ items[i].link = link
  THEN CHOOSE i \in 1..Len(items) :
         items[i].profile_id = id /\ items[i].link = link
  ELSE 0

\* A plain INSERT, without the ON CONFLICT clause and without the UNIQUE
\* constraint behind it; no code of the program.
InsertItem(items, id, entry) ==
  Append(items, [profile_id |-> id,
                 title |-> entry.title,
                 link |-> entry.link,
                 summary |-> entry.summary,
                 discovered_at |-> entry.published_at])

\* INSERT INTO feed_items (profile_id, title, link, summary, discovered_at)
\* VALUES (?, ?, ?, ?, ?) ON CONFLICT(profile_id, link)
\* DO UPDATE SET title = excluded.title, summary = excluded.summary
UpsertItem(items, id, entry) ==
  LET i == ItemIndex(items, id, entry.link) IN
  IF i # 0
  THEN [items EXCEPT ![i].title = entry.title, ![i].summary = entry.summary]
  ELSE Append(items, [profile_id |-> id,
                      title |-> entry.title,
                      link |-> entry.link,
                      summary |-> entry.summary,
                      discovered_at |-> entry.published_at])

\* for entry in entries: conn.execute(INSERT ... ON CONFLICT ...)
RECURSIVE UpsertItems(_, _, _)
UpsertItems(items, id, entries) ==
  IF entries = <<>> THEN items
  ELSE UpsertItems(UpsertItem(items, id, Head(entries)), id, Tail(entries))

\* SELECT p.*, COUNT(fi.id) AS item_count ... WHERE p.id = ? GROUP BY p.id,
\* through profile_from_row: <<>> is None, <<p>> the StoredProfile p.
StoredProfileOf(ps, items, id) ==
  [id |-> ps[id].id,
   feed_token |-> ps[id].feed_token,
   feed_title |-> ps[id].feed_title,
   max_items |-> ps[id].max_items,
   refresh_interval_minutes |-> ps[id].refresh_interval_minutes,
   active |-> ps[id].active,
   last_status |-> ps[id].last_status,
   last_error |-> ps[id].last_error,
   last_refreshed_at |-> ps[id].last_refreshed_at,
   refresh_anchor_at |-> ps[id].refresh_anchor_at,
   created_at |-> ps[id].created_at,
   item_count |-> Len(ItemsOf(items, id))]

get_profile_by_id(ps, items, id) ==
  IF id \in DOMAIN ps THEN <<StoredProfileOf(ps, items, id)>> ELSE <<>>

\* WHERE p.feed_token = ?: feed_token is UNIQUE.
get_profile_by_token(ps, items, token) ==
  IF \E i \in DOMAIN ps : ps[i].feed_token = token
  THEN <<StoredProfileOf(ps, items,
                         CHOOSE i \in DOMAIN ps : ps[i].feed_token = token)>>
  ELSE <<>>

\* SELECT ... FROM profiles p ... GROUP BY p.id ORDER BY p.created_at DESC:
\* every order of the rows that is descending in created_at (SQL leaves the
\* order of rows with equal created_at open).
list_profiles(ps, items) ==
  LET n == Cardinality(DOMAIN ps) IN
  {[k \in 1..n |-> StoredProfileOf(ps, items, order[k])] :
     order \in {o \in [1..n -> DOMAIN ps] :
                  /\ \A j, k \in 1..n : j # k => o[j] # o[k]
                  /\ \A j, k \in 1..n :
                       j < k => fromisoformat(ps[o[j]].created_at)
                                  >= fromisoformat(ps[o[k]].created_at)}}

\* The rows of a result in ORDER BY discovered_at DESC, id ASC.
RECURSIVE OrderByDiscoveredDesc(_)
OrderByDiscoveredDesc(items) ==
  IF items = <<>> THEN <<>>
  ELSE LET newest == Max({fromisoformat(items[i].discovered_at) :
                            i \in 1..Len(items)})
           first == CHOOSE i \in 1..Len(items) :
                      /\ fromisoformat(items[i].discovered_at) = newest
                      /\ \A j \in 1..(i - 1) :
                           fromisoformat(items[j].discovered_at) # newest
       IN <<items[first]>>
            \o OrderByDiscoveredDesc(SubSeq(items, 1, first - 1)
                                       \o SubSeq(items, first + 1, Len(items)))

\* SELECT title, link, summary, discovered_at FROM feed_items
\* WHERE profile_id = ? ORDER BY discovered_at DESC, id ASC LIMIT ?
list_feed_items(items, id, limit) ==
  LET rows == OrderByDiscoveredDesc(ItemsOf(items, id))
      kept == SubSeq(rows, 1, IF Len(rows) < limit THEN Len(rows) ELSE limit)
  IN [k \in 1..Len(kept) |->
        [title |-> kept[k].title,
         link |-> kept[k].link,
         summary |-> kept[k].summary,
         published_at |-> kept[k].discovered_at]]

(* ------------------------------ due time ------------------------------ *)

\* A should_refresh without the test of refresh_interval_minutes <= 0; no
\* code of the program.
should_refresh_any_interval(profile, now) ==
  IF ~profile.active THEN FALSE
  ELSE LET given == {v \in {profile.last_refreshed_at,
                            profile.refresh_anchor_at} : v # EmptyText}
           base_candidates ==
             IF given = {} /\ profile.created_at # EmptyText
             THEN {profile.created_at}
             ELSE given
       IN IF base_candidates = {} THEN FALSE
          ELSE LET due_base == Max({fromisoformat(v) : v \in base_candidates})
                   due_at == due_base + profile.refresh_interval_minutes
               IN now >= due_at

\* should_refresh(profile), with the value datetime.now(timezone.utc) has
\* when it is evaluated
should_refresh(profile, now) ==
  IF ~profile.active THEN FALSE
  ELSE IF profile.refresh_interval_minutes = 0 THEN FALSE
  ELSE LET given == {v \in {profile.last_refreshed_at,
                            profile.refresh_anchor_at} : v # EmptyText}
           base_candidates ==
             IF given = {} /\ profile.created_at # EmptyText
             THEN {profile.created_at}
             ELSE given
       IN IF base_candidates = {} THEN FALSE
          ELSE LET due_base == Max({fromisoformat(v) : v \in base_candidates})
                   due_at == due_base + profile.refresh_interval_minutes
               IN now >= due_at

(* ------------------------------ threads ------------------------------- *)

\* run_scheduler_loop runs in one thread started by ensure_scheduler; the
\* routes run in the request threads of the web server.
Scheduler == "scheduler"

Handlers == {"request"}

Threads == {Scheduler} \cup Handlers

\* The local variables of a thread.  op is the operation it runs, pc its
\* position in it, pid the profile_id argument, config and active the other
\* arguments, profile the StoredProfile it loaded (<<>> is None), now the text
\* utcnow_text() returned, todo what is left of the list refresh_due_profiles
\* iterates, exc the exception being raised (<<>> when none).
Idle ==
  [op |-> "none", pc |-> "idle", pid |-> 0, config |-> <<>>, active |-> FALSE,
   profile |-> <<>>, now |-> EmptyText, todo |-> <<>>, exc |-> <<>>]

\* stop_event.wait(SCHEDULER_INTERVAL_SECONDS) in run_scheduler_loop
Waiting == [Idle EXCEPT !.op = "refresh_due_profiles", !.pc = "wait"]

ValueError(msg) == <<[type |-> "ValueError", msg |-> msg]>>

RuntimeError(msg) == <<[type |-> "RuntimeError", msg |-> msg]>>

\* An exception that is neither a ValueError nor a RuntimeError.
OtherError(msg) == <<[type |-> "Exception", msg |-> msg]>>

\* The variable run when no extract_feed_entries call is followed step by
\* step.
NoRun == [pc |-> "none"]

\* The database and the threads after init_db and ensure_scheduler.
Started ==
  /\ profiles = << >>
  /\ next_id = 1
  /\ feed_items = <<>>
  /\ clock = 0
  /\ th = [t \in Threads |-> IF t = Scheduler THEN Waiting ELSE Idle]
  /\ requests = 0
  /\ stop_event = FALSE

Init == Started /\ run = NoRun

\* A request arrives: one more of the MaxRequests of the run.
Received == requests < MaxRequests /\ requests' = requests + 1

\* The ids a request can name: those given out so far, and one never given.
ProfileIds == 1..next_id

\* Time passes.
Tick ==
  /\ clock < MaxTime
  /\ clock' = clock + 1
  /\ UNCHANGED <<profiles, next_id, feed_items, th, requests, run, stop_event>>

\* FeedRequest of a StoredProfile (to_feed_request)
to_feed_request(profile) ==
  [feed_title |-> profile.feed_title, max_items |-> profile.max_items,
   refresh_interval_minutes |-> profile.refresh_interval_minutes]

(* --------------------------- the source page -------------------------- *)

FeedEntry(title, link, summary, at) ==
  [title |-> title, link |-> link, summary |-> summary, published_at |-> at]

\* The entry lists the source page can give at the instant `at` (all entries
\* of one extraction carry the same published_at, line 740).  The primary
\* pass does not compare links: two item nodes with the same href give two
\* entries with the same link (the third page).
Pages(at) ==
  {<<FeedEntry("t1", "l1", "", at)>>,
   <<FeedEntry("t2", "l1", "s", at), FeedEntry("t1", "l2", "", at)>>,
   <<FeedEntry("t1", "l2", "s", at), FeedEntry("t2", "l2", "", at)>>}

\* What extract_feed_entries(config) returns when it returns: a non-empty
\* list of at most max_items entries ([: config.max_items], line 766).
ExtractedEntries(config, at) ==
  {page \in Pages(at) : Len(page) <= config.max_items}

(* ------------------------- refresh_due_profiles ----------------------- *)

\* The attributes of a listed StoredProfile that refresh_due_profiles reads
\* (profile.id, profile.active and those should_refresh reads).
Listed(profile) ==
  [id |-> profile.id,
   active |-> profile.active,
   refresh_interval_minutes |-> profile.refresh_interval_minutes,
   last_refreshed_at |-> profile.last_refreshed_at,
   refresh_anchor_at |-> profile.refresh_anchor_at,
   created_at |-> profile.created_at]

\* for profile in <listed>: if profile.active and should_refresh(profile):
\* refresh_profile(db_path, profile.id).  The loop runs, without touching the
\* database, to the next call of refresh_profile (todo is what is listed
\* after that profile) or to its end, where run_scheduler_loop waits.
RECURSIVE ForLoop(_, _)
ForLoop(todo, now) ==
  IF todo = <<>> THEN Waiting
  ELSE IF Head(todo).active /\ should_refresh(Head(todo), now)
  THEN [Waiting EXCEPT !.pc = "rp_load", !.pid = Head(todo).id,
                       !.todo = Tail(todo)]
  ELSE ForLoop(Tail(todo), now)

\* A loop that does not look at the stop event before a tick; no code of
\* the program.
SchedulerListUnstopped(t) ==
  /\ th[t].pc = "wait"
  /\ \E listed \in list_profiles(profiles, feed_items) :
       th' = [th EXCEPT ![t] =
                ForLoop([k \in 1..Len(listed) |-> Listed(listed[k])], clock)]
  /\ UNCHANGED <<profiles, next_id, feed_items, clock, requests, run,
                 stop_event>>

\* while not stop_event.is_set(): run_scheduler_loop calls
\* refresh_due_profiles, which lists the profiles and starts its loop.
SchedulerList(t) ==
  /\ th[t].pc = "wait"
  /\ ~stop_event
  /\ \E listed \in list_profiles(profiles, feed_items) :
       th' = [th EXCEPT ![t] =
                ForLoop([k \in 1..Len(listed) |-> Listed(listed[k])], clock)]
  /\ UNCHANGED <<profiles, next_id, feed_items, clock, requests, run, stop_event>>

(* --------------------------- refresh_profile -------------------------- *)

\* Where the thread is once refresh_profile has returned (exc = <<>>) or
\* raised exc, at its next access to the database:
\*  - refresh_due_profiles: except RuntimeError: continue, and the loop goes
\*    on; any other exception leaves refresh_due_profiles and
\*    run_scheduler_loop, and the thread ends;
\*  - load_feed_payload: both branches of the try load the profile again; an
\*    exception that is not a RuntimeError leaves load_feed_payload;
\*  - refresh_profile_route: the route answers, 404 on ValueError and 400 on
\*    RuntimeError.
Returned(t, exc) ==
  LET caught == exc = <<>> \/ exc[1].type = "RuntimeError" IN
  CASE th[t].op = "refresh_due_profiles" ->
         IF caught THEN ForLoop(th[t].todo, clock)
         ELSE [Waiting EXCEPT !.pc = "dead", !.pid = th[t].pid,
                              !.todo = th[t].todo, !.exc = exc]
    [] th[t].op = "load_feed_payload" ->
         IF caught
         THEN [Idle EXCEPT !.op = th[t].op, !.pc = "feed_reload",
                           !.pid = th[t].pid]
         ELSE [Idle EXCEPT !.op = th[t].op, !.pc = "done", !.pid = th[t].pid,
                           !.exc = exc]
    [] OTHER ->
         IF exc = <<>> THEN Idle
         ELSE [Idle EXCEPT !.op = th[t].op, !.pc = "done", !.pid = th[t].pid,
                           !.exc = exc]

\* A guard of refresh_profile that lets a disabled profile through; no code
\* of the program.
IsDisabledNever(profile) == FALSE

\* if not profile.active: raise RuntimeError("Feed is disabled.")
IsDisabled(profile) == ~profile.active

\* profile = get_profile_by_id(...); the two guards; now = utcnow_text().
\* Of the profile the rest of the function reads profile.to_feed_request().
RefreshLoad(t) ==
  /\ th[t].pc = "rp_load"
  /\ LET p == get_profile_by_id(profiles, feed_items, th[t].pid) IN
       th' = [th EXCEPT ![t] =
                IF p = <<>>
                THEN Returned(t, ValueError("Profile not found."))
                ELSE IF IsDisabled(p[1])
                THEN Returned(t, RuntimeError("Feed is disabled."))
                ELSE [@ EXCEPT !.pc = "rp_extract",
                               !.config = <<to_feed_request(p[1])>>,
                               !.now = utcnow_text(clock)]]
  /\ UNCHANGED <<profiles, next_id, feed_items, clock, requests, run, stop_event>>

\* extract_feed_entries raised ValueError or RuntimeError: the except branch
RefreshFail(t, message) ==
  /\ th[t].pc = "rp_extract"
  /\ profiles' = UpdateWhereId(profiles, th[t].pid,
                               ErrorProfileRow(profiles[th[t].pid], message, th[t].now))
  /\ th' = [th EXCEPT ![t] = Returned(t, RuntimeError(message))]
  /\ UNCHANGED <<next_id, feed_items, clock, requests, run, stop_event>>

\* extract_feed_entries raised another exception (a socket timeout while
\* response.read() reads the body is a TimeoutError, which fetch_html_http
\* does not turn into a ValueError): no except branch of refresh_profile
\* matches and nothing is written.
RefreshRaise(t) ==
  /\ th[t].pc = "rp_extract"
  /\ th' = [th EXCEPT ![t] = Returned(t, OtherError("timed out"))]
  /\ UNCHANGED <<profiles, next_id, feed_items, clock, requests, run, stop_event>>

\* extract_feed_entries returned: the upserts and the UPDATE, one transaction
RefreshStore(t, entries) ==
  /\ th[t].pc = "rp_extract"
  /\ feed_items' = UpsertItems(feed_items, th[t].pid, entries)
  /\ profiles' = UpdateWhereId(profiles, th[t].pid,
                               OkProfileRow(profiles[th[t].pid], th[t].now))
  /\ th' = [th EXCEPT ![t] = Returned(t, <<>>)]
  /\ UNCHANGED <<next_id, clock, requests, run, stop_event>>

\* The outcomes of the call extract_feed_entries(profile.to_feed_request()).
\* It takes its own `now` (line 740) after the page has been fetched, and
\* only parsing lies between that and the write: the entries carry the
\* instant of this step.
RefreshExtract(t) ==
  \/ \E entries \in (IF th[t].pc = "rp_extract"
                     THEN ExtractedEntries(th[t].config[1], utcnow_text(clock))
                     ELSE {}) :
       RefreshStore(t, entries)
  \/ \E message \in ErrorMessages : RefreshFail(t, message)
  \/ RefreshRaise(t)

refresh_profile(t) == RefreshLoad(t) \/ RefreshExtract(t)

\* refresh_profile_route: a request for POST /profiles/<id>/refresh
RefreshRouteCall(t, id) ==
  /\ th[t].pc = "idle"
  /\ th' = [th EXCEPT ![t] = [Idle EXCEPT !.op = "refresh_profile",
                                          !.pc = "rp_load", !.pid = id]]
  /\ Received
  /\ UNCHANGED <<profiles, next_id, feed_items, clock, run, stop_event>>

refresh_due_profiles(t) == SchedulerList(t) \/ refresh_profile(t)

\* stop_event.set(), by whoever holds app.config["SCHEDULER_STOP_EVENT"]
SetStop ==
  /\ ~stop_event
  /\ stop_event' = TRUE
  /\ UNCHANGED <<profiles, next_id, feed_items, clock, th, requests, run>>

\* stop_event.wait(SCHEDULER_INTERVAL_SECONDS) returns and while not
\* stop_event.is_set() ends the loop: run_scheduler_loop returns.
SchedulerStop(t) ==
  /\ th[t].pc = "wait"
  /\ stop_event
  /\ th' = [th EXCEPT ![t] = [Waiting EXCEPT !.pc = "stopped"]]
  /\ UNCHANGED <<profiles, next_id, feed_items, clock, requests, run,
                 stop_event>>

run_scheduler_loop(t) == refresh_due_profiles(t) \/ SchedulerStop(t)

(* --------------------------- load_feed_payload ------------------------ *)

\* profile = get_profile_by_token(db_path, token); if should_refresh(profile):
\* refresh_profile(db_path, profile.id).  The profile loaded here is not read
\* again before it is loaded again.
FeedCall(t, token) ==
  /\ th[t].pc = "idle"
  /\ LET p == get_profile_by_token(profiles, feed_items, token)
         call == [Idle EXCEPT !.op = "load_feed_payload", !.pid = token]
     IN th' = [th EXCEPT ![t] =
                 IF p = <<>> THEN Idle
                 ELSE IF should_refresh(p[1], clock)
                 THEN [call EXCEPT !.pc = "rp_load", !.pid = p[1].id]
                 ELSE [call EXCEPT !.pc = "feed_items", !.profile = p]]
  /\ Received
  /\ UNCHANGED <<profiles, next_id, feed_items, clock, run, stop_event>>

\* profile = get_profile_by_token(db_path, token), after the refresh
FeedReload(t) ==
  /\ th[t].pc = "feed_reload"
  /\ LET p == get_profile_by_token(profiles, feed_items, th[t].pid) IN
       th' = [th EXCEPT ![t] =
                IF p = <<>> THEN Idle
                ELSE [@ EXCEPT !.pc = "feed_items", !.profile = p]]
  /\ UNCHANGED <<profiles, next_id, feed_items, clock, requests, run, stop_event>>

\* What load_feed_payload returns when it lists the items in this state:
\* entries = list_feed_items(db_path, profile.id, profile.max_items)
FeedPayload(t) ==
  <<th[t].profile[1],
    list_feed_items(feed_items, th[t].profile[1].id,
                    th[t].profile[1].max_items)>>

\* feed_route and feed_view_route: the status of the answer to the payload
\* (None, for an unknown token, is answered 404 as well).
FeedStatus(payload) == IF ~payload[1].active THEN 404 ELSE 200

\* return profile, entries
FeedItems(t) ==
  /\ th[t].pc = "feed_items"
  /\ th' = [th EXCEPT ![t] = Idle]
  /\ UNCHANGED <<profiles, next_id, feed_items, clock, requests, run, stop_event>>

load_feed_payload(t) ==
  \/ \E token \in ProfileIds : FeedCall(t, token)
  \/ FeedReload(t)
  \/ FeedItems(t)

(* ------------------------- the profile store -------------------------- *)

\* create_profile(db_path, config): now = utcnow_text() and the INSERT
create_profile(t, config) ==
  /\ th[t].pc = "idle"
  /\ profiles' = [i \in DOMAIN profiles \cup {next_id} |->
                    IF i = next_id
                    THEN NewProfileRow(next_id, config, utcnow_text(clock))
                    ELSE profiles[i]]
  /\ next_id' = next_id + 1
  /\ Received
  /\ UNCHANGED <<feed_items, clock, th, run, stop_event>>

\* The head of update_profile, delete_profile, purge_feed_items and
\* set_profile_active: get_profile_by_id, raise ValueError("Profile not
\* found.") on None, now = utcnow_text() (delete_profile takes no now).
StoreCall(t, op, id, config, active) ==
  /\ th[t].pc = "idle"
  /\ th' = [th EXCEPT ![t] =
              IF get_profile_by_id(profiles, feed_items, id) = <<>>
              THEN [Idle EXCEPT !.op = op, !.pc = "done", !.pid = id,
                                !.exc = ValueError("Profile not found.")]
              ELSE [Idle EXCEPT !.op = op, !.pc = "write", !.pid = id,
                                !.config = config, !.active = active,
                                !.now = IF op = "delete_profile" THEN EmptyText
                                        ELSE utcnow_text(clock)]]
  /\ Received
  /\ UNCHANGED <<profiles, next_id, feed_items, clock, run, stop_event>>

\* A call of the store ends: with an exception the route has to answer
\* for, or with nothing left to do but answer, which touches no shared state.
Returning(t, exc) ==
  IF exc = <<>> THEN Idle
  ELSE [Idle EXCEPT !.op = th[t].op, !.pc = "done", !.pid = th[t].pid,
                    !.exc = exc]

\* The exception update_profile and set_profile_active raise when the row
\* they wrote cannot be loaded again.
LoadedAgain(ps, id, what) ==
  IF id \in DOMAIN ps THEN <<>>
  ELSE RuntimeError("Failed to load the " \o what \o " profile.")

\* update_profile: the UPDATE and the load of the updated profile
UpdateWrite(t) ==
  /\ th[t].op = "update_profile"
  /\ th[t].pc = "write"
  /\ profiles' = UpdateWhereId(profiles, th[t].pid,
                   UpdateProfileRow(profiles[th[t].pid], th[t].config[1], th[t].now))
  /\ th' = [th EXCEPT ![t] = Returning(t, LoadedAgain(profiles, th[t].pid, "updated"))]
  /\ UNCHANGED <<next_id, feed_items, clock, requests, run, stop_event>>

\* delete_profile: both DELETEs, one transaction
DeleteWrite(t) ==
  /\ th[t].op = "delete_profile"
  /\ th[t].pc = "write"
  /\ feed_items' = DeleteItemsOf(feed_items, th[t].pid)
  /\ profiles' = DeleteProfileRow(profiles, th[t].pid)
  /\ th' = [th EXCEPT ![t] = Idle]
  /\ UNCHANGED <<next_id, clock, requests, run, stop_event>>

\* purge_feed_items: the DELETE and the UPDATE, one transaction
PurgeWrite(t) ==
  /\ th[t].op = "purge_feed_items"
  /\ th[t].pc = "write"
  /\ feed_items' = DeleteItemsOf(feed_items, th[t].pid)
  /\ profiles' = UpdateWhereId(profiles, th[t].pid,
                   PurgeProfileRow(profiles[th[t].pid], th[t].now))
  /\ th' = [th EXCEPT ![t] = Idle]
  /\ UNCHANGED <<next_id, clock, requests, run, stop_event>>

\* set_profile_active: the UPDATE of the branch `active` selects, and the
\* load of the updated profile
SetActiveWrite(t) ==
  /\ th[t].op = "set_profile_active"
  /\ th[t].pc = "write"
  /\ profiles' = UpdateWhereId(profiles, th[t].pid,
                   IF th[t].active
                   THEN EnableProfileRow(profiles[th[t].pid], th[t].now)
                   ELSE DisableProfileRow(profiles[th[t].pid], th[t].now))
  /\ th' = [th EXCEPT ![t] = Returning(t, LoadedAgain(profiles, th[t].pid, "updated"))]
  /\ UNCHANGED <<next_id, feed_items, clock, requests, run, stop_event>>

update_profile(t) ==
  \/ \E id \in ProfileIds, config \in FeedRequests :
       StoreCall(t, "update_profile", id, <<config>>, FALSE)
  \/ UpdateWrite(t)

delete_profile(t) ==
  \/ \E id \in ProfileIds : StoreCall(t, "delete_profile", id, <<>>, FALSE)
  \/ DeleteWrite(t)

purge_feed_items(t) ==
  \/ \E id \in ProfileIds : StoreCall(t, "purge_feed_items", id, <<>>, FALSE)
  \/ PurgeWrite(t)

set_profile_active(t) ==
  \/ \E id \in ProfileIds, active \in BOOLEAN :
       StoreCall(t, "set_profile_active", id, <<>>, active)
  \/ SetActiveWrite(t)

\* A call that raised returns to the route, which answers; the thread is
\* free again.
Return(t) ==
  /\ th[t].pc = "done"
  /\ th' = [th EXCEPT ![t] = Idle]
  /\ UNCHANGED <<profiles, next_id, feed_items, clock, requests, run, stop_event>>

(* ------------------------- extract_feed_entries ----------------------- *)

\* A URL as urlparse reads it.  An href is a URL reference: scheme '' when it
\* names none, netloc '' when it names no host, and '' itself is Url("","","").
Url(scheme, netloc, path) ==
  [scheme |-> scheme, netloc |-> netloc, path |-> path]

\* config.source_url of the run.
source_url == Url("https", "example.com", "/forum")

\* urljoin(base, href): a reference without scheme takes the base's, one
\* without host the base's host too.
urljoin(base, href) ==
  IF href.scheme # "" THEN href
  ELSE IF href.netloc # "" THEN Url(base.scheme, href.netloc, href.path)
  ELSE Url(base.scheme, base.netloc, href.path)

\* What a function gives: the value it returns, or the message of the
\* ValueError it raises.
Returns(value) == [ok |-> TRUE, value |-> value, error |-> ""]

Raises(message) == [ok |-> FALSE, value |-> <<>>, error |-> message]

normalize_topic_link(source, href) ==
  LET joined == urljoin(source, href) IN
  IF joined.scheme \notin {"http", "https"}
    THEN Raises("Topic links must resolve to http or https URLs.")
  ELSE IF joined.netloc # source.netloc
    THEN Raises("Off-site topic links are blocked by default.")
  ELSE Returns(joined)

\* A node matching link_selector: its href attribute and its text.
LinkNode(href, text) == [href |-> href, text |-> text]

\* A str is modelled as the sequence of its characters.  The letters of the
\* model, upper case and lower case in the same order; the other characters
\* are the space, the parentheses, the double quote, '*', '?' and '-'.
UpperCase == <<"A", "B", "D", "N", "O", "R">>

LowerCase == <<"a", "b", "d", "n", "o", "r">>

\* \w of the regular expressions
IsWordChar(c) ==
  \E i \in 1..Len(UpperCase) : c = UpperCase[i] \/ c = LowerCase[i]

\* \s of the regular expressions
IsSpace(c) == c = " "

casefold_char(c) ==
  IF \E i \in 1..Len(UpperCase) : c = UpperCase[i]
    THEN LowerCase[CHOOSE i \in 1..Len(UpperCase) : c = UpperCase[i]]
    ELSE c

\* str.casefold() and str.upper(), on the letters of the model
casefold(text) == [i \in 1..Len(text) |-> casefold_char(text[i])]

\* str.strip()
RECURSIVE strip(_)
strip(text) ==
  IF Len(text) = 0 THEN text
  ELSE IF IsSpace(text[1]) THEN strip(Tail(text))
  ELSE IF IsSpace(text[Len(text)]) THEN strip(SubSeq(text, 1, Len(text) - 1))
  ELSE text

\* The regular expression matches the word at position: the characters of
\* the word, ignoring case (re.IGNORECASE).
WordAt(text, position, word) ==
  /\ position + Len(word) - 1 <= Len(text)
  /\ casefold(SubSeq(text, position, position + Len(word) - 1)) = casefold(word)

\* A keyword test that compares the characters as they are written; no
\* code of the program.
KeywordAtExact(text, position, word) ==
  /\ position + Len(word) - 1 <= Len(text)
  /\ SubSeq(text, position, position + Len(word) - 1) = word
  /\ position = 1 \/ ~IsWordChar(text[position - 1])
  /\ \/ position + Len(word) > Len(text)
     \/ ~IsWordChar(text[position + Len(word)])

\* \bword\b matches at position: the word is there, with no word character
\* before it and none after it.
KeywordAt(text, position, word) ==
  /\ WordAt(text, position, word)
  /\ position = 1 \/ ~IsWordChar(text[position - 1])
  /\ \/ position + Len(word) > Len(text)
     \/ ~IsWordChar(text[position + Len(word)])

\* The alternatives of (?P<OP>\bAND\b|\bOR\b), and the token types they
\* give (the matched text in upper case).
Keywords == <<<<"A", "N", "D">>, <<"O", "R">>>>

KeywordTypes == <<"AND", "OR">>

\* re.search(r"\b(?:AND|OR)\b|[()]", text, re.IGNORECASE) finds something
HasOperatorOrParen(text) ==
  \E position \in 1..Len(text) :
    \/ text[position] \in {"(", ")"}
    \/ \E k \in 1..Len(Keywords) : KeywordAt(text, position, Keywords[k])

\* A token of tokenize_filter_expression: the pair (type, text).
Token(type, text) == <<type, text>>

\* Where (?P<TERM>[^()\s]+) stops: the first position from start on that
\* holds a space or a parenthesis, Len(text) + 1 when none does.
RECURSIVE EndOfTerm(_, _)
EndOfTerm(text, start) ==
  IF start > Len(text) THEN start
  ELSE IF IsSpace(text[start]) \/ text[start] \in {"(", ")"} THEN start
  ELSE EndOfTerm(text, start + 1)

\* The position of the first quote character from start on, 0 when none.
RECURSIVE ClosingQuote(_, _, _)
ClosingQuote(text, start, quote) ==
  IF start > Len(text) THEN 0
  ELSE IF text[start] = quote THEN start
  ELSE ClosingQuote(text, start + 1, quote)

\* The loop of tokenize_filter_expression from position on: \s*, then the
\* first alternative of the pattern that matches.  (Some alternative always
\* matches on stripped text, so 'Invalid filter expression.' is not raised.)
RECURSIVE TokensFrom(_, _)
TokensFrom(text, position) ==
  IF position > Len(text) THEN <<>>
  ELSE IF IsSpace(text[position]) THEN TokensFrom(text, position + 1)
  ELSE IF text[position] = "("
    THEN <<Token("LPAREN", <<"(">>)>> \o TokensFrom(text, position + 1)
  ELSE IF text[position] = ")"
    THEN <<Token("RPAREN", <<")">>)>> \o TokensFrom(text, position + 1)
  ELSE IF /\ text[position] \in {"\"", "'"}
          /\ ClosingQuote(text, position + 1, text[position]) # 0
    THEN LET close == ClosingQuote(text, position + 1, text[position]) IN
         <<Token("TERM", SubSeq(text, position + 1, close - 1))>>
           \o TokensFrom(text, close + 1)
  ELSE IF \E k \in 1..Len(Keywords) : KeywordAt(text, position, Keywords[k])
    THEN LET k == CHOOSE k \in 1..Len(Keywords) :
                    /\ KeywordAt(text, position, Keywords[k])
                    /\ \A j \in 1..(k - 1) :
                         ~KeywordAt(text, position, Keywords[j])
         IN <<Token(KeywordTypes[k], Keywords[k])>>
              \o TokensFrom(text, position + Len(Keywords[k]))
  ELSE LET end == EndOfTerm(text, position) IN
       <<Token("TERM", SubSeq(text, position, end - 1))>>
         \o TokensFrom(text, end)

tokenize_filter_expression(expression) == TokensFrom(expression, 1)

\* current() of parse_filter_expression: <<>> is None.
current(tokens, position) ==
  IF position > Len(tokens) THEN <<>> ELSE <<tokens[position]>>

\* current() is a token of the type
IsType(token, type) == Len(token) > 0 /\ token[1][1] = type

\* What a parse function gives: the node and the position after what it
\* consumed, or the message of the ValueError it raises.
Parsed(node, position) ==
  [ok |-> TRUE, node |-> node, position |-> position, error |-> ""]

ParseError(message) ==
  [ok |-> FALSE, node |-> <<>>, position |-> 0, error |-> message]

RECURSIVE parse_or_expression(_, _)
RECURSIVE parse_or_loop(_, _)
RECURSIVE parse_and_expression(_, _)
RECURSIVE parse_and_loop(_, _)
RECURSIVE parse_primary(_, _)

parse_primary(tokens, position) ==
  LET token == current(tokens, position) IN
  IF Len(token) = 0 THEN ParseError("Incomplete filter expression.")
  ELSE IF IsType(token, "TERM")
    THEN Parsed(<<"TERM", token[1][2]>>, position + 1)
  ELSE IF IsType(token, "LPAREN")
    THEN LET inner == parse_or_expression(tokens, position + 1) IN
         IF ~inner.ok THEN inner
         ELSE IF Len(current(tokens, inner.position)) = 0
           THEN ParseError("Incomplete filter expression.")
         ELSE IF ~IsType(current(tokens, inner.position), "RPAREN")
           THEN ParseError("Expected rparen in filter expression.")
         ELSE Parsed(inner.node, inner.position + 1)
  ELSE ParseError("Expected a filter term or parenthesized group.")

\* while current() is "AND": node = ("AND", node, parse_primary())
parse_and_loop(tokens, left) ==
  IF ~left.ok \/ ~IsType(current(tokens, left.position), "AND") THEN left
  ELSE LET right == parse_primary(tokens, left.position + 1) IN
       IF ~right.ok THEN right
       ELSE parse_and_loop(tokens,
              Parsed(<<"AND", left.node, right.node>>, right.position))

parse_and_expression(tokens, position) ==
  parse_and_loop(tokens, parse_primary(tokens, position))

\* while current() is "OR": node = ("OR", node, parse_and_expression())
parse_or_loop(tokens, left) ==
  IF ~left.ok \/ ~IsType(current(tokens, left.position), "OR") THEN left
  ELSE LET right == parse_and_expression(tokens, left.position + 1) IN
       IF ~right.ok THEN right
       ELSE parse_or_loop(tokens,
              Parsed(<<"OR", left.node, right.node>>, right.position))

parse_or_expression(tokens, position) ==
  parse_or_loop(tokens, parse_and_expression(tokens, position))

parse_filter_expression(expression) ==
  LET normalized_expression == strip(expression) IN
  IF Len(normalized_expression) = 0
    THEN Raises("Filter expressions cannot be empty.")
  ELSE IF ~HasOperatorOrParen(normalized_expression)
    THEN Returns(<<"TERM", normalized_expression>>)
  ELSE LET tokens == tokenize_filter_expression(normalized_expression)
           tree == parse_or_expression(tokens, 1)
       IN
       IF ~tree.ok THEN Raises(tree.error)
       ELSE IF Len(current(tokens, tree.position)) # 0
         THEN Raises("Unexpected token in filter expression.")
       ELSE Returns(tree.node)

\* parse_filter_rule_lines: the lines of the rules, stripped, without the
\* empty ones.  The text of the rules is modelled as the sequence of its
\* lines (splitlines).
RECURSIVE parse_filter_rule_lines(_)
parse_filter_rule_lines(filter_rules) ==
  IF Len(filter_rules) = 0 THEN <<>>
  ELSE IF Len(strip(Head(filter_rules))) = 0
    THEN parse_filter_rule_lines(Tail(filter_rules))
  ELSE <<strip(Head(filter_rules))>>
         \o parse_filter_rule_lines(Tail(filter_rules))

\* [parse_filter_expression(rule) for rule in rules]: the trees, or the
\* first ValueError.
RECURSIVE ParseLines(_)
ParseLines(rules) ==
  IF Len(rules) = 0 THEN Returns(<<>>)
  ELSE LET first == parse_filter_expression(Head(rules)) IN
       IF ~first.ok THEN first
       ELSE LET rest == ParseLines(Tail(rules)) IN
            IF ~rest.ok THEN rest ELSE Returns(<<first.value>> \o rest.value)

parse_filter_rules(filter_rules) ==
  ParseLines(parse_filter_rule_lines(filter_rules))

\* fnmatchcase(name, pattern) for a pattern of literal characters, '*' and
\* '?' (no '[').
RECURSIVE fnmatchcase(_, _)
fnmatchcase(name, pattern) ==
  IF Len(pattern) = 0 THEN Len(name) = 0
  ELSE IF pattern[1] = "*"
    THEN \/ fnmatchcase(name, Tail(pattern))
         \/ Len(name) > 0 /\ fnmatchcase(Tail(name), pattern)
  ELSE /\ Len(name) > 0
       /\ pattern[1] = "?" \/ pattern[1] = name[1]
       /\ fnmatchcase(Tail(name), Tail(pattern))

\* `needle in haystack` of two str
RECURSIVE Contains(_, _)
Contains(haystack, needle) ==
  IF Len(needle) > Len(haystack) THEN FALSE
  ELSE IF SubSeq(haystack, 1, Len(needle)) = needle THEN TRUE
  ELSE Contains(Tail(haystack), needle)

\* The test with the glob of a wildcard term taken as written.
entry_matches_unpadded_term(entry, term) ==
  IF \E i \in 1..Len(term) : term[i] \in {"*", "?"}
    THEN fnmatchcase(casefold(entry.title), casefold(term))
    ELSE Contains(casefold(entry.title), casefold(term))

entry_matches_filter_term(entry, term) ==
  LET title == casefold(entry.title)
      normalized_term == casefold(term)
  IN
  IF \E i \in 1..Len(normalized_term) : normalized_term[i] \in {"*", "?"}
    THEN LET padded == IF normalized_term[1] # "*"
                         THEN <<"*">> \o normalized_term
                         ELSE normalized_term
             pattern == IF padded[Len(padded)] # "*"
                          THEN padded \o <<"*">>
                          ELSE padded
         IN fnmatchcase(title, pattern)
    ELSE Contains(title, normalized_term)

RECURSIVE evaluate_filter_expression(_, _)
evaluate_filter_expression(tree, entry) ==
  IF tree[1] = "TERM" THEN entry_matches_filter_term(entry, tree[2])
  ELSE IF tree[1] = "AND"
    THEN /\ evaluate_filter_expression(tree[2], entry)
         /\ evaluate_filter_expression(tree[3], entry)
  ELSE \/ evaluate_filter_expression(tree[2], entry)
       \/ evaluate_filter_expression(tree[3], entry)

entry_matches_any_filter_rule(entry, parsed_rules) ==
  \E i \in 1..Len(parsed_rules) :
    evaluate_filter_expression(parsed_rules[i], entry)

\* The test with an include match that outweighs the exclude rules.
PassesIncludeFirst(entry, include_rules, exclude_rules) ==
  \/ Len(include_rules) > 0
       /\ entry_matches_any_filter_rule(entry, include_rules)
  \/ /\ Len(include_rules) = 0
     /\ ~entry_matches_any_filter_rule(entry, exclude_rules)

\* Whether the two filters let an entry through (the test both passes and
\* apply_entry_filters make).
PassesFilters(entry, include_rules, exclude_rules) ==
  /\ \/ Len(include_rules) = 0
     \/ entry_matches_any_filter_rule(entry, include_rules)
  /\ \/ Len(exclude_rules) = 0
     \/ ~entry_matches_any_filter_rule(entry, exclude_rules)

apply_entry_filters(entries, include_rules, exclude_rules) ==
  SelectSeq(entries, LAMBDA entry :
    PassesFilters(entry, include_rules, exclude_rules))

\* A node of the document: the element itself, with its href and its text,
\* and the nodes in it that match the selector "a", in document order.
\* summary_selector is empty and no node holds text outside its links.
Node(element, links) == [element |-> element, links |-> links]

\* get_text(" ", strip=True) of a node that holds these link nodes
RECURSIVE JoinedText(_)
JoinedText(links) ==
  IF Len(links) = 0 THEN <<>>
  ELSE IF Len(links) = 1 THEN links[1].text
  ELSE links[1].text \o <<" ">> \o JoinedText(Tail(links))

\* A node that is no link: it has no href.
Container(links) == Node(LinkNode(Url("", "", ""), JoinedText(links)), links)

\* The link nodes of the item nodes of a page, in document order.
RECURSIVE Descendants(_)
Descendants(page) ==
  IF Len(page) = 0 THEN <<>> ELSE Head(page) \o Descendants(Tail(page))

\* soup.select(selector) on a page, given as the sequence of its "li"
\* nodes, each the sequence of its link nodes.  ":scope" matches the root
\* element of the document; "self" is a type selector like any other, and no
\* element of the pages has that name.
select(page, selector) ==
  IF selector = "li" THEN [i \in 1..Len(page) |-> Container(page[i])]
  ELSE IF selector = "a"
    THEN [i \in 1..Len(Descendants(page)) |->
            Node(Descendants(page)[i], <<>>)]
  ELSE IF selector = ":scope" THEN <<Container(Descendants(page))>>
  ELSE <<>>

\* select_node_with_scope(node, selector): <<>> is None.  The selectors
\* of the model have no space around them, so that strip() leaves them.
select_node_with_scope(node, selector) ==
  IF selector \in {":scope", "self"} THEN <<node.element>>
  ELSE IF Len(node.links) = 0 THEN <<>> ELSE <<node.links[1]>>

select_nodes_with_scope(node, selector) ==
  IF selector \in {":scope", "self"} THEN <<node.element>> ELSE node.links

\* build_entry_from_nodes: <<entry>>, <<>> for None, or the ValueError of
\* normalize_topic_link.  title_text is None or '' in every call modelled,
\* so the title is the text of title_node.
build_entry_from_nodes(title_node, link_node, config, now) ==
  IF Len(title_node) = 0 \/ Len(link_node) = 0 THEN Returns(<<>>)
  ELSE IF link_node[1].href = Url("", "", "") THEN Returns(<<>>)
  ELSE LET absolute_link ==
             normalize_topic_link(config.source_url, link_node[1].href) IN
       IF ~absolute_link.ok THEN absolute_link
       ELSE IF Len(title_node[1].text) = 0 THEN Returns(<<>>)
       ELSE Returns(<<FeedEntry(title_node[1].text, absolute_link.value,
                                "", now)>>)

\* A loop over the item nodes that leaves out an entry whose link an earlier
\* entry has; no code of the program.
RECURSIVE ItemNodesLoopSeen(_, _, _, _, _)
ItemNodesLoopSeen(nodes, config, now, rules, entries) ==
  IF Len(nodes) = 0 THEN Returns(entries)
  ELSE LET node == Head(nodes)
           built == build_entry_from_nodes(
                      select_node_with_scope(node, config.title_selector),
                      select_node_with_scope(node, config.link_selector),
                      config, now)
           rest == Tail(nodes)
       IN
       IF ~built.ok THEN built
       ELSE IF \/ Len(built.value) = 0
               \/ \E i \in 1..Len(entries) :
                    entries[i].link = built.value[1].link
         THEN ItemNodesLoopSeen(rest, config, now, rules, entries)
       ELSE IF ~PassesFilters(built.value[1], rules.include, rules.exclude)
         THEN ItemNodesLoopSeen(rest, config, now, rules, entries)
       ELSE IF Len(entries) + 1 >= config.max_items
         THEN Returns(Append(entries, built.value[1]))
       ELSE ItemNodesLoopSeen(rest, config, now, rules,
                              Append(entries, built.value[1]))

\* The loop of extract_entries_from_item_nodes over the nodes left; rules
\* holds parsed_filter_rules (include) and parsed_exclude_filter_rules.
RECURSIVE ItemNodesLoop(_, _, _, _, _)
ItemNodesLoop(nodes, config, now, rules, entries) ==
  IF Len(nodes) = 0 THEN Returns(entries)
  ELSE LET node == Head(nodes)
           built == build_entry_from_nodes(
                      select_node_with_scope(node, config.title_selector),
                      select_node_with_scope(node, config.link_selector),
                      config, now)
           rest == Tail(nodes)
       IN
       IF ~built.ok THEN built
       ELSE IF Len(built.value) = 0
         THEN ItemNodesLoop(rest, config, now, rules, entries)
       ELSE IF ~PassesFilters(built.value[1], rules.include, rules.exclude)
         THEN ItemNodesLoop(rest, config, now, rules, entries)
       ELSE IF Len(entries) + 1 >= config.max_items
         THEN Returns(Append(entries, built.value[1]))
       ELSE ItemNodesLoop(rest, config, now, rules,
                          Append(entries, built.value[1]))

extract_entries_from_item_nodes(nodes, config, now, rules) ==
  ItemNodesLoop(nodes, config, now, rules, <<>>)

\* A test for the link expansion that does not look at the entries of the
\* primary pass; no code of the program.
should_expand_any_count(nodes, entries, config) ==
  \E i \in 1..Len(nodes) :
    Len(select_nodes_with_scope(nodes[i], config.link_selector)) > 1

should_use_container_link_fallback(nodes, entries, config) ==
  IF Len(entries) > 1 THEN FALSE
  ELSE \E i \in 1..Len(nodes) :
         Len(select_nodes_with_scope(nodes[i], config.link_selector)) > 1

\* The link nodes of all the item nodes in the order the two loops of
\* extract_entries_from_link_collections visit them.
RECURSIVE LinkGroups(_, _)
LinkGroups(nodes, config) ==
  IF Len(nodes) = 0 THEN <<>>
  ELSE select_nodes_with_scope(Head(nodes), config.link_selector)
         \o LinkGroups(Tail(nodes), config)

\* The loops of extract_entries_from_link_collections over the link nodes
\* left; seen_links is the set of the links of the entries.
RECURSIVE LinkNodesLoop(_, _, _, _, _)
LinkNodesLoop(link_nodes, config, now, rules, entries) ==
  IF Len(link_nodes) = 0 THEN Returns(entries)
  ELSE LET link_node == Head(link_nodes)
           built == build_entry_from_nodes(<<link_node>>, <<link_node>>,
                                           config, now)
           rest == Tail(link_nodes)
       IN
       IF ~built.ok THEN built
       ELSE IF \/ Len(built.value) = 0
               \/ \E i \in 1..Len(entries) :
                    entries[i].link = built.value[1].link
         THEN LinkNodesLoop(rest, config, now, rules, entries)
       ELSE IF ~PassesFilters(built.value[1], rules.include, rules.exclude)
         THEN LinkNodesLoop(rest, config, now, rules, entries)
       ELSE IF Len(entries) + 1 >= config.max_items
         THEN Returns(Append(entries, built.value[1]))
       ELSE LinkNodesLoop(rest, config, now, rules,
                          Append(entries, built.value[1]))

extract_entries_from_link_collections(nodes, config, now, rules) ==
  LinkNodesLoop(LinkGroups(nodes, config), config, now, rules, <<>>)

\* The link nodes of the pages: two usable on-host links, an off-host link,
\* a link of another scheme, a link without href.
LinkNodes ==
  {LinkNode(Url("", "", "/t1"), <<"A", "d">>),
   LinkNode(Url("", "", "/t2"), <<"b", "o">>),
   LinkNode(Url("https", "evil.test", "/t1"), <<"A", "d">>),
   LinkNode(Url("mailto", "", "x"), <<"b", "o">>),
   LinkNode(Url("", "", ""), <<"A", "d">>)}

\* An item node holds no, one or two link nodes; the first of two is the
\* link to /t1 or the link without href.
ItemNodes ==
  {<<>>} \cup {<<a>> : a \in LinkNodes}
         \cup {<<a, b>> : a \in {l \in LinkNodes : l.href.path # "/t2"
                                                 /\ l.href.scheme = ""},
                          b \in LinkNodes}

\* The "li" nodes of the page the site serves, each the sequence of its
\* link nodes.
Documents == UNION {[1..n -> ItemNodes] : n \in 0..MaxNodes}

\* The lines of config.filter_rules and config.exclude_filter_rules: none,
\* the term 'bo', the group '(ad OR r)' and the unbalanced group '(ad OR r'
\* (as '(alpha OR premium' is).
FilterRules ==
  {<<>>,
   << <<"b", "o">> >>,
   << <<"(", "a", "d", " ", "O", "R", " ", "r", ")">> >>,
   << <<"(", "a", "d", " ", "O", "R", " ", "r">> >>}

\* item_selector, title_selector and link_selector of a FeedRequest: the
\* item nodes are the "li" nodes, the root or the links themselves.
Selectors ==
  {<<"li", "a", "a">>, <<":scope", "a", "a">>, <<"self", "a", "a">>,
   <<"a", ":scope", ":scope">>, <<"a", "self", "self">>}

FeedRequest(selectors, max_items, filter_rules, exclude_filter_rules) ==
  [source_url |-> source_url, item_selector |-> selectors[1],
   title_selector |-> selectors[2], link_selector |-> selectors[3],
   max_items |-> max_items, filter_rules |-> filter_rules,
   exclude_filter_rules |-> exclude_filter_rules]

\* The FeedRequest of an extraction; the rules are given on one side at
\* most, and with the selectors "li" and "a" only.
ExtractRequests ==
  {FeedRequest(<<"li", "a", "a">>, m, p[1], p[2]) :
     m \in {1, 2},
     p \in {q \in FilterRules \X FilterRules : Len(q[1]) = 0 \/ Len(q[2]) = 0}}
  \cup {FeedRequest(selectors, 2, <<>>, <<>>) : selectors \in Selectors}

\* sse_event(event_name, payload): the chunk of the stream, kept as the
\* name and the payload it is formatted from.
sse_event(event_name, payload) == <<event_name, payload>>

\* The progress argument of a call: None, or emit_progress_event of the
\* preview stream, which puts a stage event on the queue and returns.
Sinks == {"None", "emit_progress_event"}

\* extract_feed_entries(config, progress=progress) is called while the site
\* serves page: the locals of the call before its first statement.  fetches
\* counts the calls of fetch_html, expanded tells that
\* extract_entries_from_link_collections ran, primary keeps what
\* extract_entries_from_item_nodes returned, events is the queue
\* emit_progress_event puts its events on.
ExtractCall(config, page, progress) ==
  [pc |-> "fetch_html", config |-> config, page |-> page,
   progress |-> progress, events |-> <<>>, fetches |-> 0,
   nodes |-> <<>>, rules |-> [include |-> <<>>, exclude |-> <<>>],
   primary |-> <<>>, expanded |-> FALSE, container_entries |-> <<>>,
   entries |-> <<>>, result |-> <<>>, exc |-> <<>>]

\* emit_progress in a call that interrupts the call when there is a sink; no
\* code of the program.
emit_progress_interrupting(call, title) ==
  IF call.progress = "None" THEN call
  ELSE [call EXCEPT !.events = Append(@, sse_event("stage", title)),
                    !.nodes = <<>>, !.entries = <<>>]

\* emit_progress(progress, title, detail) in a call: progress, when it is
\* not None, is called with the title; it is emit_progress_event, which
\* does event_queue.put(sse_event("stage", ...)).
emit_progress(call, title) ==
  IF call.progress = "None" THEN call
  ELSE [call EXCEPT !.events = Append(@, sse_event("stage", title))]

\* emit_progress called count times with one title
RECURSIVE EmitTimes(_, _, _)
EmitTimes(call, title, count) ==
  IF count = 0 THEN call
  ELSE EmitTimes(emit_progress(call, title), title, count - 1)

\* if index == 1 or index % 25 == 0 or index == total
Reported(index, total) == index = 1 \/ index % 25 = 0 \/ index = total

\* Whether the loop of extract_entries_from_item_nodes ends at node k: it
\* raises there, or breaks with max_items entries.
ItemNodesEnd(nodes, config, now, rules, k) ==
  LET entries == ItemNodesLoop(SubSeq(nodes, 1, k), config, now, rules, <<>>)
  IN ~entries.ok \/ Len(entries.value) >= config.max_items

\* The calls of emit_progress in the loop of extract_entries_from_item_nodes:
\* one for each node the loop comes to whose index is 1, a multiple of 25 or
\* total.
ItemNodesReports(nodes, config, now, rules) ==
  Cardinality({index \in 1..Len(nodes) :
    /\ Reported(index, Len(nodes))
    /\ \A k \in 1..(index - 1) : ~ItemNodesEnd(nodes, config, now, rules, k)})

\* Whether link node k gave an entry in the loops of
\* extract_entries_from_link_collections.
LinkNodeAppended(link_nodes, config, now, rules, k) ==
  LET before == LinkNodesLoop(SubSeq(link_nodes, 1, k - 1), config, now,
                              rules, <<>>)
      after == LinkNodesLoop(SubSeq(link_nodes, 1, k), config, now, rules,
                             <<>>)
  IN /\ before.ok
     /\ Len(before.value) < config.max_items
     /\ after.ok
     /\ Len(after.value) > Len(before.value)

\* The calls of emit_progress in the loops of
\* extract_entries_from_link_collections: one for a link node that gave an
\* entry, when processed_links is 1, a multiple of 25 or total_links.
LinkNodesReports(nodes, config, now, rules) ==
  LET link_nodes == LinkGroups(nodes, config) IN
  Cardinality({processed_links \in 1..Len(link_nodes) :
    /\ Reported(processed_links, Len(link_nodes))
    /\ LinkNodeAppended(link_nodes, config, now, rules, processed_links)})

\* sequence[: stop] for a stop of 0 or more
Slice(sequence, stop) ==
  SubSeq(sequence, 1, IF Len(sequence) < stop THEN Len(sequence) ELSE stop)

\* The call raises, with its locals as they are in call.
ExtractRaiseFrom(call, exc) ==
  /\ run' = [call EXCEPT !.pc = "raised", !.exc = exc]
  /\ UNCHANGED <<profiles, next_id, feed_items, clock, th, requests,
               stop_event>>

\* The call raises.
ExtractRaise(exc) == ExtractRaiseFrom(run, exc)

\* The call goes on to the statement at pc with some locals assigned.
ExtractGoto(next) ==
  /\ run' = next
  /\ UNCHANGED <<profiles, next_id, feed_items, clock, th, requests,
               stop_event>>

\* What fetch_html_http raises: the ValueError it makes of an HTTPError, a
\* RedirectBlocked or an URLError, and the TimeoutError of response.read(),
\* which it lets through.
FetchErrors ==
  {ValueError(message) : message \in ErrorMessages}
    \cup {OtherError("timed out")}

\* emit_progress(progress, "Accessing website", ...); html =
\* fetch_html(config.source_url, config.fetch_mode, progress=progress): the
\* page, or what fetch_html_http raises.
ExtractFetch ==
  /\ run.pc = "fetch_html"
  /\ LET call == emit_progress(emit_progress(
                   [run EXCEPT !.fetches = @ + 1], "Accessing website"),
                   "Fetching content")
     IN
     \/ ExtractGoto([call EXCEPT !.pc = "select"])
     \/ \E exc \in FetchErrors : ExtractRaiseFrom(call, exc)

\* soup = BeautifulSoup(html, "html.parser"); nodes =
\* soup.select(config.item_selector); if not nodes: raise
ExtractSelect ==
  /\ run.pc = "select"
  /\ LET call == emit_progress(emit_progress(run, "Analyzing document"),
                               "Matching selectors")
         nodes == select(run.page, run.config.item_selector)
     IN
     IF Len(nodes) = 0
       THEN ExtractRaiseFrom(call,
              ValueError("No topic nodes matched the item selector."))
       ELSE ExtractGoto(emit_progress(
              [call EXCEPT !.pc = "parse_filter_rules", !.nodes = nodes],
              "Matching selectors"))

\* parsed_filter_rules = parse_filter_rules(config.filter_rules) and the
\* same for config.exclude_filter_rules
ExtractParseRules ==
  /\ run.pc = "parse_filter_rules"
  /\ LET include == parse_filter_rules(run.config.filter_rules)
         exclude == parse_filter_rules(run.config.exclude_filter_rules)
     IN
     IF ~include.ok THEN ExtractRaise(ValueError(include.error))
     ELSE IF ~exclude.ok THEN ExtractRaise(ValueError(exclude.error))
     ELSE ExtractGoto([run EXCEPT !.pc = "item_nodes",
                         !.rules = [include |-> include.value,
                                    exclude |-> exclude.value]])

\* entries = extract_entries_from_item_nodes(nodes, config, now, ...)
ExtractItemNodes ==
  /\ run.pc = "item_nodes"
  /\ LET now == utcnow_text(clock)
         call == EmitTimes(emit_progress(run, "Extracting entries"),
                   "Extracting entries",
                   ItemNodesReports(run.nodes, run.config, now, run.rules))
         entries == extract_entries_from_item_nodes(call.nodes, call.config,
                                                    now, call.rules)
     IN
     IF ~entries.ok THEN ExtractRaiseFrom(call, ValueError(entries.error))
     ELSE ExtractGoto([call EXCEPT !.pc = "fallback",
                         !.primary = entries.value,
                         !.entries = entries.value])

\* if should_use_container_link_fallback(nodes, entries, config): ... if
\* len(container_entries) > len(entries): entries = container_entries
ExtractLinkCollections ==
  /\ run.pc = "fallback"
  /\ IF ~should_use_container_link_fallback(run.nodes, run.entries,
                                             run.config)
       THEN ExtractGoto([run EXCEPT !.pc = "filter"])
       ELSE LET now == utcnow_text(clock)
                call == EmitTimes(
                          emit_progress(run, "Expanding repeated links"),
                          "Expanding repeated links",
                          LinkNodesReports(run.nodes, run.config, now,
                                           run.rules))
                container_entries ==
                  extract_entries_from_link_collections(call.nodes,
                    call.config, now, call.rules)
            IN
            IF ~container_entries.ok
              THEN ExtractGoto([call EXCEPT !.pc = "raised", !.expanded = TRUE,
                     !.exc = ValueError(container_entries.error)])
              ELSE ExtractGoto([call EXCEPT !.pc = "filter",
                     !.expanded = TRUE,
                     !.container_entries = container_entries.value,
                     !.entries =
                       IF Len(container_entries.value) > Len(call.entries)
                         THEN container_entries.value ELSE call.entries])

\* The end of the call without the test of entries; no code of the program.
ExtractReturnUnchecked ==
  /\ run.pc = "filter"
  /\ ExtractGoto([run EXCEPT !.pc = "returned",
       !.result = Slice(apply_entry_filters(run.entries, run.rules.include,
                                            run.rules.exclude),
                        run.config.max_items)])

\* if not entries: raise; return apply_entry_filters(...)[: config.max_items]
ExtractReturn ==
  /\ run.pc = "filter"
  /\ IF Len(run.entries) = 0
       THEN ExtractRaise(ValueError(
              "Matched nodes did not contain usable titles and links."))
       ELSE LET call == emit_progress(emit_progress(run, "Applying filters"),
                                      "Preparing preview")
            IN ExtractGoto([call EXCEPT !.pc = "returned",
                 !.result = Slice(apply_entry_filters(call.entries,
                                    call.rules.include, call.rules.exclude),
                                  call.config.max_items)])

extract_feed_entries ==
  \/ ExtractFetch
  \/ ExtractSelect
  \/ ExtractParseRules
  \/ ExtractItemNodes
  \/ ExtractLinkCollections
  \/ ExtractReturn

(* -------------------------- the preview stream ------------------------ *)

\* The FeedRequest of a preview: with no rule and with the unbalanced group.
PreviewRequests ==
  {FeedRequest(<<"li", "a", "a">>, 2, filter_rules, <<>>) :
     filter_rules \in {<<>>, << <<"(", "a", "d", " ", "O", "R", " ", "r">> >>}}

\* stream_preview_response(config) has started the thread of run_preview_job
\* and returned the Response: the call of extract_feed_entries the job will
\* make, the queue (events), the consumer generate() with the number of
\* chunks it took off the queue and the chunks it yielded.
PreviewCall(config, page) ==
  [ExtractCall(config, page, "emit_progress_event") EXCEPT
     !.pc = "run_preview_job"]
    @@ [consumer |-> "get", taken |-> 0, yielded |-> <<>>]

\* serialize_preview(entries)
serialize_preview(entries) ==
  [i \in 1..Len(entries) |->
     [title |-> entries[i].title, link |-> entries[i].link]]

\* event_queue.put(chunk) in the job
put(call, chunk) == [call EXCEPT !.events = Append(@, chunk)]

\* run_preview_job up to the call of extract_feed_entries
PreviewValidate ==
  /\ run.pc = "run_preview_job"
  /\ ExtractGoto([put(run, sse_event("stage", "Validating request"))
                    EXCEPT !.pc = "fetch_html"])

\* run_preview_job once extract_feed_entries has returned or raised: the
\* result event, or the error event of except (ValueError, RuntimeError);
\* any other exception goes on to the finally clause.
PreviewOutcome ==
  /\ \/ /\ run.pc = "returned"
        /\ ExtractGoto([put(run, sse_event("result",
                              serialize_preview(run.result)))
                          EXCEPT !.pc = "finally"])
     \/ /\ run.pc = "raised"
        /\ run.exc[1].type \in {"ValueError", "RuntimeError"}
        /\ ExtractGoto([put(run, sse_event("error", run.exc[1].msg))
                          EXCEPT !.pc = "finally"])
     \/ /\ run.pc = "raised"
        /\ run.exc[1].type \notin {"ValueError", "RuntimeError"}
        /\ ExtractGoto([run EXCEPT !.pc = "finally"])

\* finally: event_queue.put(sse_event("done", {})); event_queue.put(None)
PreviewFinally ==
  /\ run.pc = "finally"
  /\ ExtractGoto([put(put(run, sse_event("done", <<>>)),
                      sse_event("None", <<>>))
                    EXCEPT !.pc = "finished"])

\* generate(): chunk = event_queue.get(); if chunk is None: break; yield
\* chunk
PreviewGenerate ==
  /\ run.consumer = "get"
  /\ run.taken < Len(run.events)
  /\ LET chunk == run.events[run.taken + 1] IN
     ExtractGoto(
       IF chunk[1] = "None"
         THEN [run EXCEPT !.taken = @ + 1, !.consumer = "closed"]
         ELSE [run EXCEPT !.taken = @ + 1, !.yielded = Append(@, chunk)])

stream_preview_response ==
  \/ PreviewValidate
  \/ extract_feed_entries
  \/ PreviewOutcome
  \/ PreviewFinally
  \/ PreviewGenerate

(* ------------------------------ the filters --------------------------- *)

\* The titles the filters are tried on: every set of the letters a, b, d,
\* in either case.
FilterTitles ==
  <<<<>>, <<"A">>, <<"b">>, <<"d">>, <<"a", "B">>, <<"A", "d">>,
    <<"b", "D">>, <<"a", "b", "d">>>>

\* The entries with these titles.
FilterEntries ==
  [i \in 1..Len(FilterTitles) |->
     FeedEntry(FilterTitles[i], Url("https", "example.com", "/t"), "", <<0>>)]

\* The entries a term matches.
TermMatches(term) ==
  {i \in 1..Len(FilterEntries) :
     entry_matches_filter_term(FilterEntries[i], term)}

\* A written expression: its text and the entries its boolean formula
\* accepts.
Written(text, accepts) == [text |-> text, accepts |-> accepts]

\* The terms as they are written inside an expression: bare, or quoted.
WrittenTerms ==
  {Written(<<"B">>, TermMatches(<<"B">>)),
   Written(<<"\"", "d", "\"">>, TermMatches(<<"d">>))}

\* The spellings of the two keywords.
AndWords == {<<"A", "N", "D">>, <<"a", "n", "d">>}

OrWords == {<<"o", "r">>}

\* The expressions of the grammar, by the number of their terms and pairs
\* of parentheses:
\*   Or := And (OR And)*, And := Primary (AND Primary)*,
\*   Primary := Term | '(' Or ')'
RECURSIVE OrOf(_)
RECURSIVE AndOf(_)
RECURSIVE PrimaryOf(_)

PrimaryOf(n) ==
  IF n = 1 THEN WrittenTerms
  ELSE {Written(<<"(">> \o e.text \o <<")">>, e.accepts) : e \in OrOf(n - 1)}

AndOf(n) ==
  PrimaryOf(n) \cup
  UNION {{Written(l.text \o <<" ">> \o w \o <<" ">> \o r.text,
                  l.accepts \cap r.accepts) :
            l \in AndOf(i), w \in AndWords, r \in PrimaryOf(n - i)} :
         i \in 1..(n - 1)}

OrOf(n) ==
  AndOf(n) \cup
  UNION {{Written(l.text \o <<" ">> \o w \o <<" ">> \o r.text,
                  l.accepts \cup r.accepts) :
            l \in OrOf(i), w \in OrWords, r \in AndOf(n - i)} :
         i \in 1..(n - 1)}

\* The rule lines that are expressions of the grammar with an operator or a
\* parenthesis.
Expressions(size) == UNION {OrOf(n) : n \in 2..size}

\* A rule line without operator and parenthesis is one term, the line as it
\* is written.
BareLines ==
  {Written(t, TermMatches(t)) : t \in {<<"a">>, <<"B">>, <<"a", " ", "B">>}}

\* A rule line written wrongly, with what is wrong (defect).
Defective(text, defect) == [text |-> text, defect |-> defect]

\* The lines written wrongly: an expression of the grammar with a
\* parenthesis too many or too few, with an operator that lacks a term, with
\* an empty quoted literal for a term, with a term or a group after its
\* end, and the empty text.
DefectiveLines(size) ==
  LET written == {e.text : e \in Expressions(size)}
      words == AndWords \cup OrWords
  IN
  {Defective(<<"(">> \o e, "unbalanced parentheses") : e \in written}
  \cup {Defective(e \o <<")">>, "unbalanced parentheses") : e \in written}
  \cup {Defective(<<"(", "(">> \o e \o <<")">>, "unbalanced parentheses") :
          e \in written}
  \cup {Defective(e \o <<" ">> \o w, "empty term") :
          e \in written, w \in words}
  \cup {Defective(w \o <<" ">> \o e, "empty term") :
          e \in written, w \in words}
  \cup {Defective(e \o <<" ">> \o w \o <<" ", "(", ")">>, "empty term") :
          e \in written, w \in words}
  \cup {Defective(e \o <<" ">> \o w \o <<" ", "\"", "\"">>, "empty term") :
          e \in written, w \in words}
  \cup {Defective(<<"\"", "\"", " ">> \o w \o <<" ">> \o e, "empty term") :
          e \in written, w \in words}
  \cup {Defective(e \o <<" ", "B">>, "trailing tokens") : e \in written}
  \cup {Defective(e \o <<"(", "B", ")">>, "trailing tokens") : e \in written}
  \cup {Defective(<<>>, "empty rule text"),
        Defective(<<" ">>, "empty rule text")}

\* A call of parse_filter_expression on a rule line, the tree evaluated on
\* FilterEntries afterwards; with what is known of the line as it was
\* written (accepts: the entries its formula accepts; defect: what is wrong
\* with it, "none" for an expression of the grammar).
ExpressionCall(text, accepts, defect) ==
  [pc |-> "parse_filter_expression", expression |-> text,
   tree |-> <<>>, kept |-> <<>>, exc |-> <<>>,
   accepts |-> accepts, defect |-> defect]

\* The calls on the expressions of up to size terms and pairs of
\* parentheses, and on the lines written wrongly.
ExpressionCalls(size) ==
  {ExpressionCall(e.text, e.accepts, "none") :
     e \in Expressions(size) \cup BareLines}
  \cup {ExpressionCall(d.text, {}, d.defect) : d \in DefectiveLines(size - 2)}

\* tree = parse_filter_expression(rule), or its ValueError
ExpressionParse ==
  /\ run.pc = "parse_filter_expression"
  /\ LET tree == parse_filter_expression(run.expression) IN
     IF ~tree.ok THEN ExtractRaise(ValueError(tree.error))
     ELSE ExtractGoto([run EXCEPT !.pc = "evaluate_filter_expression",
                                  !.tree = tree.value])

\* evaluate_filter_expression(tree, entry) for each of FilterEntries
ExpressionEvaluate ==
  /\ run.pc = "evaluate_filter_expression"
  /\ ExtractGoto([run EXCEPT !.pc = "evaluated",
       !.kept = SelectSeq(FilterEntries, LAMBDA entry :
                  evaluate_filter_expression(run.tree, entry))])

\* The texts of up to length characters of an alphabet.
TextsOf(alphabet, length) == UNION {[1..n -> alphabet] : n \in 0..length}

\* A call of entry_matches_filter_term on an entry with a title of the
\* letters A, b and a term of a, B and the two wildcards.
TermCall(term, title) ==
  [pc |-> "entry_matches_filter_term", term |-> term,
   entry |-> FeedEntry(title, Url("https", "example.com", "/t"), "", <<0>>),
   matches |-> FALSE]

TermCalls(length) ==
  {TermCall(term, title) :
     term \in TextsOf({"a", "B", "*", "?"}, length) \ {<<>>},
     title \in TextsOf({"A", "b"}, length)}

TermMatch ==
  /\ run.pc = "entry_matches_filter_term"
  /\ ExtractGoto([run EXCEPT !.pc = "matched",
       !.matches = entry_matches_filter_term(run.entry, run.term)])

\* The lines of a rule set in the calls of the filters: two bare terms, an
\* expression, and a blank line.
RuleLines ==
  {Written(<<"a">>, TermMatches(<<"a">>)),
   Written(<<"B">>, TermMatches(<<"B">>)),
   Written(<<"\"", "d", "\"", " ", "a", "n", "d", " ", "B">>,
           TermMatches(<<"d">>) \cap TermMatches(<<"B">>)),
   Written(<<" ">>, {})}

\* The rule sets: no line, one line or two.
RuleSets ==
  {<<>>} \cup {<<l>> : l \in RuleLines} \cup {<<l, m>> : l, m \in RuleLines}

\* The lines of a rule set that are rules: blank lines are discarded.
NonBlank(lines) ==
  {lines[i] : i \in {j \in 1..Len(lines) : lines[j].text # <<" ">>}}

\* A call of the filters: the lines of the include and of the exclude
\* rules, applied to FilterEntries, and for either rule set the entries
\* the formula of each of its rules accepts.
FilterCall(include, exclude) ==
  [pc |-> "parse_filter_rules",
   filter_rules |-> [i \in 1..Len(include) |-> include[i].text],
   exclude_filter_rules |-> [i \in 1..Len(exclude) |-> exclude[i].text],
   rules |-> [include |-> <<>>, exclude |-> <<>>],
   kept |-> <<>>, exc |-> <<>>,
   accepts |-> [include |-> {l.accepts : l \in NonBlank(include)},
                exclude |-> {l.accepts : l \in NonBlank(exclude)}]]

FilterCalls ==
  {FilterCall(include, exclude) : include \in RuleSets, exclude \in RuleSets}

\* parsed_filter_rules = parse_filter_rules(config.filter_rules) and the
\* same for config.exclude_filter_rules (lines 738-739)
FilterParse ==
  /\ run.pc = "parse_filter_rules"
  /\ LET include == parse_filter_rules(run.filter_rules)
         exclude == parse_filter_rules(run.exclude_filter_rules)
     IN
     IF ~include.ok THEN ExtractRaise(ValueError(include.error))
     ELSE IF ~exclude.ok THEN ExtractRaise(ValueError(exclude.error))
     ELSE ExtractGoto([run EXCEPT !.pc = "apply_entry_filters",
                         !.rules = [include |-> include.value,
                                    exclude |-> exclude.value]])

\* apply_entry_filters(entries, parsed_filter_rules,
\* parsed_exclude_filter_rules) (line 766)
FilterApply ==
  /\ run.pc = "apply_entry_filters"
  /\ ExtractGoto([run EXCEPT !.pc = "returned",
       !.kept = apply_entry_filters(FilterEntries, run.rules.include,
                                    run.rules.exclude)])

(* ------------------------- parse_request_values ----------------------- *)

\* The letters a scheme is written with in the model, upper case and lower
\* case in the same order.
SchemeUpper == <<"H", "T", "P", "S">>

SchemeLower == <<"h", "t", "p", "s">>

Digits == <<"0", "1", "2", "3", "4", "5", "6", "7", "8", "9">>

IsDigit(c) == \E i \in 1..Len(Digits) : c = Digits[i]

\* str.isascii() and str.isalpha() of one character
IsLetter(c) ==
  \/ \E i \in 1..Len(SchemeUpper) : c = SchemeUpper[i]
  \/ c \in {"a", "c", "f", "h", "i", "j", "m", "o", "p", "q", "r", "s", "t",
            "u", "v", "x"}

\* scheme_chars of urllib.parse: letters, digits and "+-."
IsSchemeChar(c) == IsLetter(c) \/ IsDigit(c) \/ c \in {"+", "-", "."}

\* str.lower()
lower(text) ==
  [i \in 1..Len(text) |->
     IF \E k \in 1..Len(SchemeUpper) : text[i] = SchemeUpper[k]
     THEN SchemeLower[CHOOSE k \in 1..Len(SchemeUpper) : text[i] = SchemeUpper[k]]
     ELSE text[i]]

\* The least index from start on of a character of chars in text, 0 when
\* there is none (str.find and the loop of _splitnetloc).
Find(text, chars, start) ==
  IF \E i \in start..Len(text) : text[i] \in chars
  THEN CHOOSE i \in start..Len(text) :
         text[i] \in chars /\ \A j \in start..(i - 1) : text[j] \notin chars
  ELSE 0

\* urlparse(url), its attributes scheme and netloc: the scheme is what
\* stands before the first ':' when that is a letter followed by scheme
\* characters, in lower case; the netloc is what follows '//' after it, up
\* to the first '/', '?' or '#'.
urlparse(url) ==
  LET i == Find(url, {":"}, 1)
      has_scheme == /\ i > 1
                    /\ IsLetter(url[1])
                    /\ \A k \in 1..(i - 1) : IsSchemeChar(url[k])
      rest == IF has_scheme THEN SubSeq(url, i + 1, Len(url)) ELSE url
      delim == Find(rest, {"/", "?", "#"}, 3)
  IN [scheme |-> IF has_scheme THEN lower(SubSeq(url, 1, i - 1)) ELSE <<>>,
      netloc |-> IF Len(rest) >= 2 /\ rest[1] = "/" /\ rest[2] = "/"
                 THEN SubSeq(rest, 3, IF delim = 0 THEN Len(rest)
                                      ELSE delim - 1)
                 ELSE <<>>]

\* The schemes normalize_source_url accepts.
HttpSchemes == {<<"h", "t", "t", "p">>, <<"h", "t", "t", "p", "s">>}

\* normalize_source_url(source_url)
normalize_source_url(url) ==
  LET parsed == urlparse(strip(url)) IN
  IF parsed.scheme \notin HttpSchemes \/ parsed.netloc = <<>>
  THEN Raises("Source URL must be a full http or https URL.")
  ELSE Returns(strip(url))

\* require_text(value, label)
require_text(value, label) ==
  IF strip(value) = <<>> THEN Raises(label \o " is required.")
  ELSE Returns(strip(value))

\* The number a text of digits writes.
RECURSIVE NumberOf(_)
NumberOf(text) ==
  IF text = <<>> THEN 0
  ELSE 10 * NumberOf(SubSeq(text, 1, Len(text) - 1))
         + (CHOOSE d \in 0..9 : Digits[d + 1] = text[Len(text)])

\* int(raw): the number of a text of digits, with a sign and with spaces
\* around it; <<>> when int raises ValueError.
int(raw) ==
  LET text == strip(raw)
      signed == Len(text) > 0 /\ text[1] \in {"-", "+"}
      digits == IF signed THEN Tail(text) ELSE text
  IN IF digits = <<>> \/ \E i \in 1..Len(digits) : ~IsDigit(digits[i])
     THEN <<>>
     ELSE <<IF signed /\ text[1] = "-" THEN 0 - NumberOf(digits)
            ELSE NumberOf(digits)>>

parse_max_items(raw) ==
  IF int(raw) = <<>> THEN Raises("Max items must be a number.")
  ELSE IF int(raw)[1] < 1 \/ int(raw)[1] > 100
  THEN Raises("Max items must be between 1 and 100.")
  ELSE Returns(int(raw)[1])

parse_refresh_interval(raw) ==
  IF int(raw) = <<>>
  THEN Raises("Refresh interval must be a number of minutes.")
  ELSE IF int(raw)[1] < 0 \/ int(raw)[1] > 1440
  THEN Raises("Refresh interval must be between 0 and 1440 minutes.")
  ELSE Returns(int(raw)[1])

\* The parts a source URL is written from, with what it then names: the
\* scheme before the ':', and the host inside the authority after '//'
\* (<<>> for none: a port or a user name alone names no host).
SchemeParts ==
  {<<"h", "t", "t", "p">>, <<"h", "t", "t", "p", "s">>,
   <<"H", "T", "T", "P">>, <<"f", "t", "p">>,
   <<"j", "a", "v", "a", "s", "c", "r", "i", "p", "t">>, <<>>}

Separators == {<<":">>, <<":", "/", "/">>, <<"/", "/">>}

Authority(text, host) == [text |-> text, host |-> host]

Authorities ==
  {Authority(<<>>, <<>>),
   Authority(<<"a", ".", "c", "o", "m">>, <<"a", ".", "c", "o", "m">>),
   Authority(<<"a", ".", "c", "o", "m", ":", "8", "0">>,
             <<"a", ".", "c", "o", "m">>),
   Authority(<<":", "8", "0">>, <<>>),
   Authority(<<"u", "@">>, <<>>)}

PathParts == {<<>>, <<"/", "x">>, <<"?", "q">>}

\* A source URL as it is typed, with spaces around it or without, and the
\* scheme and the host it names.
SourceUrl(scheme, separator, authority, path, spaces) ==
  [text |-> spaces \o scheme \o separator \o authority.text \o path
              \o spaces,
   scheme |-> IF scheme # <<>> /\ separator[1] = ":" THEN lower(scheme)
              ELSE <<>>,
   host |-> IF (scheme # <<>> /\ separator = <<":", "/", "/">>)
                 \/ (scheme = <<>> /\ separator = <<"/", "/">>)
            THEN authority.host ELSE <<>>]

SourceUrls ==
  {SourceUrl(scheme, separator, authority, path, spaces) :
     scheme \in SchemeParts, separator \in Separators,
     authority \in Authorities, path \in PathParts,
     spaces \in {<<>>, <<" ">>}}

\* The other values of a form: a form that is accepted, and the same form
\* with one value that is not.
Form(fetch_mode, feed_title, item_selector, max_items, refresh_interval_minutes) ==
  [fetch_mode |-> fetch_mode, feed_title |-> feed_title,
   item_selector |-> item_selector, max_items |-> max_items,
   refresh_interval_minutes |-> refresh_interval_minutes]

Forms ==
  LET http == <<"h", "t", "t", "p">>
      A == <<"A">>
      li == <<"l", "i">>
  IN {Form(http, A, li, <<"2", "5">>, <<"6", "0">>),
      Form(<<" ">>, A, li, <<" ", "1">>, <<"0">>),
      Form(<<"f", "t", "p">>, A, li, <<"2", "5">>, <<"6", "0">>),
      Form(http, <<" ">>, li, <<"2", "5">>, <<"6", "0">>),
      Form(http, A, <<>>, <<"2", "5">>, <<"6", "0">>),
      Form(http, A, li, <<"0">>, <<"6", "0">>),
      Form(http, A, li, <<"1", "0", "1">>, <<"6", "0">>),
      Form(http, A, li, <<"x">>, <<"6", "0">>),
      Form(http, A, li, <<"2", "5">>, <<"-", "1">>),
      Form(http, A, li, <<"2", "5">>, <<"1", "4", "4", "1">>)}

\* parse_request_values(values) is called: values with the source URL as
\* typed (url keeps what the text names) before the first statement.
RequestCall(url, form) ==
  [pc |-> "normalize_source_url", values |-> form @@ [source_url |-> url.text],
   url |-> url, source_url |-> <<>>, fetch_mode |-> <<>>, config |-> <<>>,
   exc |-> <<>>]

\* source_url = normalize_source_url(values.get("source_url", ""))
RequestSourceUrl ==
  /\ run.pc = "normalize_source_url"
  /\ LET r == normalize_source_url(run.values.source_url) IN
     IF r.ok THEN ExtractGoto([run EXCEPT !.pc = "fetch_mode",
                                          !.source_url = r.value])
     ELSE ExtractRaise(ValueError(r.error))

\* fetch_mode = values.get("fetch_mode", "http").strip() or "http"; if
\* fetch_mode not in {"http", "browser"}: raise
RequestFetchMode ==
  /\ run.pc = "fetch_mode"
  /\ LET fetch_mode == IF strip(run.values.fetch_mode) = <<>>
                       THEN <<"h", "t", "t", "p">>
                       ELSE strip(run.values.fetch_mode)
     IN IF fetch_mode \notin {<<"h", "t", "t", "p">>,
                              <<"b", "r", "o", "w", "s", "e", "r">>}
        THEN ExtractRaise(ValueError("Fetch mode must be http or browser."))
        ELSE ExtractGoto([run EXCEPT !.pc = "FeedRequest",
                                     !.fetch_mode = fetch_mode])

\* return FeedRequest(...): the arguments are evaluated in their order and
\* the first that raises ends the call.  item_selector stands for the three
\* selectors that go through require_text.
RequestBuild ==
  /\ run.pc = "FeedRequest"
  /\ LET feed_title == require_text(run.values.feed_title, "Feed title")
         item_selector ==
           require_text(run.values.item_selector, "Item selector")
         max_items == parse_max_items(run.values.max_items)
         refresh == parse_refresh_interval(run.values.refresh_interval_minutes)
         arguments == <<feed_title, item_selector, max_items, refresh>>
         failed == {i \in 1..Len(arguments) : ~arguments[i].ok}
     IN IF failed # {}
        THEN ExtractRaise(ValueError(
               arguments[CHOOSE i \in failed : \A j \in failed : i <= j].error))
        ELSE ExtractGoto([run EXCEPT !.pc = "returned",
               !.config = <<[feed_title |-> feed_title.value,
                             source_url |-> run.source_url,
                             item_selector |-> item_selector.value,
                             max_items |-> max_items.value,
                             refresh_interval_minutes |-> refresh.value,
                             fetch_mode |-> run.fetch_mode]>>])

parse_request_values == RequestSourceUrl \/ RequestFetchMode \/ RequestBuild

(* ----------------------- the titles of repeated links ----------------- *)

\* A child of the parent of a link node (an element of parent.contents): an
\* anchor with its href and its text, a line break, or a text node (name
\* "None").  Two children are equal, as two bs4 nodes are, when they have
\* the same name, the same attributes and the same contents.
Sibling(name, href, text) == [name |-> name, href |-> href, text |-> text]

\* node.get_text(" ", strip=True) of a node that holds one string, and
\* str(node).strip() of a text node
get_text(node) == strip(node.text)

\* siblings.index(link_node): the first child equal to link_node, 0 for
\* the ValueError of list.index
index(siblings, link_node) ==
  IF \E i \in 1..Len(siblings) : siblings[i] = link_node
  THEN CHOOSE i \in 1..Len(siblings) :
         siblings[i] = link_node
           /\ \A j \in 1..(i - 1) : siblings[j] # link_node
  ELSE 0

\* for sibling in reversed(siblings[:link_index]): break at br or a;
\* title_parts.insert(0, text): from child i back to the first child
RECURSIVE PartsBefore(_, _)
PartsBefore(siblings, i) ==
  IF i = 0 THEN <<>>
  ELSE IF siblings[i].name \in {"br", "a"} THEN <<>>
  ELSE PartsBefore(siblings, i - 1)
         \o (IF get_text(siblings[i]) = <<>> THEN <<>>
             ELSE <<get_text(siblings[i])>>)

\* for sibling in siblings[link_index + 1 :]: break at br or a;
\* title_parts.append(text): from child i on
RECURSIVE PartsAfter(_, _)
PartsAfter(siblings, i) ==
  IF i > Len(siblings) THEN <<>>
  ELSE IF siblings[i].name \in {"br", "a"} THEN <<>>
  ELSE (IF get_text(siblings[i]) = <<>> THEN <<>>
        ELSE <<get_text(siblings[i])>>)
         \o PartsAfter(siblings, i + 1)

\* " ".join(parts)
RECURSIVE join(_)
join(parts) ==
  IF Len(parts) = 0 THEN <<>>
  ELSE IF Len(parts) = 1 THEN parts[1]
  ELSE parts[1] \o <<" ">> \o join(Tail(parts))

\* text.split()
RECURSIVE split(_)
split(text) ==
  IF Len(text) = 0 THEN <<>>
  ELSE IF IsSpace(text[1]) THEN split(Tail(text))
  ELSE LET space == Find(text, {" "}, 1)
           stop == IF space = 0 THEN Len(text) + 1 ELSE space
       IN <<SubSeq(text, 1, stop - 1)>> \o split(SubSeq(text, stop, Len(text)))

\* extract_inline_title_text(container_node, link_node): siblings is
\* link_node.parent.contents (every link node of the model has a parent).
extract_inline_title_text(siblings, link_node) ==
  LET anchor_text == get_text(link_node)
      link_index == index(siblings, link_node)
  IN IF link_index = 0 THEN anchor_text
     ELSE LET title_parts == PartsBefore(siblings, link_index - 1)
                               \o (IF anchor_text # <<>> THEN <<anchor_text>>
                                   ELSE <<>>)
                               \o PartsAfter(siblings, link_index + 1)
              title == join(split(join(title_parts)))
          IN IF title # <<>> THEN title ELSE anchor_text

\* resolve_repeated_link_title_node(link_node, config): the anchors of the
\* model hold text only, so that select_node_with_scope finds nothing in
\* them and the link node is returned in every branch.
resolve_repeated_link_title_node(link_node, config) == link_node

\* extract_repeated_link_title_text(container_node, link_node, title_node,
\* config): <<>> is None; title_node is link_node.
extract_repeated_link_title_text(siblings, link_node, config) ==
  IF config.title_selector \notin {config.link_selector, ":scope", "self"}
  THEN <<>>
  ELSE extract_inline_title_text(siblings, link_node)

\* The children of a parent: two texts, a text of spaces, a line break and
\* three anchors, one of them without text.
Siblings ==
  {Sibling("None", Url("", "", ""), <<"X">>),
   Sibling("None", Url("", "", ""), <<" ", "Y", " ", " ", "Z">>),
   Sibling("None", Url("", "", ""), <<" ">>),
   Sibling("br", Url("", "", ""), <<>>),
   Sibling("a", Url("", "", "/t1"), <<"A">>),
   Sibling("a", Url("", "", "/t2"), <<"B", " ">>),
   Sibling("a", Url("", "", "/t2"), <<>>)}

\* One link node of extract_entries_from_link_collections: child k of its
\* parent, before its title is taken.
TitleCall(config, siblings, k) ==
  [pc |-> "extract_repeated_link_title_text", config |-> config,
   siblings |-> siblings, k |-> k, title_text |-> <<>>, entry |-> <<>>,
   exc |-> <<>>]

\* The calls on the anchors of the parents of up to size children, with
\* title_selector equal to link_selector, ":scope" or another selector.
TitleCalls(size) ==
  {TitleCall(FeedRequest(<<"li", title_selector, "a">>, 2, <<>>, <<>>),
             place[1], place[2]) :
     title_selector \in {"a", ":scope", "b"},
     place \in {p \in (UNION {[1..n -> Siblings] : n \in 1..size})
                        \X (1..size) :
                  p[2] <= Len(p[1]) /\ p[1][p[2]].name = "a"}}

\* title_node = resolve_repeated_link_title_node(link_node, config);
\* title_text = extract_repeated_link_title_text(node, link_node,
\* title_node, config)
TitleText ==
  /\ run.pc = "extract_repeated_link_title_text"
  /\ ExtractGoto([run EXCEPT !.pc = "build_entry_from_nodes",
       !.title_text = extract_repeated_link_title_text(
                        run.siblings,
                        resolve_repeated_link_title_node(
                          run.siblings[run.k], run.config),
                        run.config)])

\* entry = build_entry_from_nodes(..., title_text=title_text, ...), where
\* title = title_text or title_node.get_text(" ", strip=True)
TitleBuild ==
  /\ run.pc = "build_entry_from_nodes"
  /\ LET link_node == run.siblings[run.k]
         title == IF run.title_text # <<>> THEN run.title_text
                  ELSE get_text(link_node)
         built == build_entry_from_nodes(
                    <<[link_node EXCEPT !.text = title]>>, <<link_node>>,
                    run.config, utcnow_text(clock))
     IN IF ~built.ok THEN ExtractRaise(ValueError(built.error))
        ELSE ExtractGoto([run EXCEPT !.pc = "built", !.entry = built.value])

(* --------------------------- the whole system ------------------------- *)

Request(t) ==
  \/ \E config \in FeedRequests : create_profile(t, config)
  \/ update_profile(t)
  \/ delete_profile(t)
  \/ purge_feed_items(t)
  \/ set_profile_active(t)
  \/ \E id \in ProfileIds : RefreshRouteCall(t, id)
  \/ refresh_profile(t)
  \/ load_feed_payload(t)
  \/ Return(t)

Next ==
  \/ Tick
  \/ refresh_due_profiles(Scheduler)
  \/ \E t \in Handlers : Request(t)

Spec == Init /\ [][Next]_vars

\* The program with a stop event that is set at some time.  The thread of
\* the scheduler goes on while it can: the statements of a tick end, a fetch
\* by its timeout.
NextStop ==
  \/ Tick
  \/ run_scheduler_loop(Scheduler)
  \/ \E t \in Handlers : Request(t)
  \/ SetStop

SpecStop ==
  /\ Init
  /\ [][NextStop]_vars
  /\ WF_vars(run_scheduler_loop(Scheduler))

\* One call of extract_feed_entries on a page and a FeedRequest, the
\* database left alone; the calls without a sink are those of the requests
\* without rules.
InitExtract ==
  /\ Started
  /\ \E config \in ExtractRequests, page \in Documents, progress \in Sinks :
       /\ progress = "None" =>
            Len(config.filter_rules) = 0 /\ Len(config.exclude_filter_rules) = 0
       /\ run = ExtractCall(config, page, progress)

NextExtract == extract_feed_entries

SpecExtract == InitExtract /\ [][NextExtract]_vars

\* One preview stream on a page and a FeedRequest.
InitPreview ==
  /\ Started
  /\ run \in {PreviewCall(config, page) :
               config \in PreviewRequests, page \in Documents}

NextPreview == stream_preview_response

SpecPreview == InitPreview /\ [][NextPreview]_vars

\* One call of the parser, of the filters or of the term matcher.
InitFilter ==
  /\ Started
  /\ run \in ExpressionCalls(MaxSize) \cup FilterCalls \cup TermCalls(MaxTerm)

NextFilter ==
  \/ ExpressionParse
  \/ ExpressionEvaluate
  \/ FilterParse
  \/ FilterApply
  \/ TermMatch

SpecFilter == InitFilter /\ [][NextFilter]_vars

\* One call of parse_request_values on the values of a form.
InitRequest ==
  /\ Started
  /\ run \in {RequestCall(url, form) : url \in SourceUrls, form \in Forms}

NextRequest == parse_request_values

SpecRequest == InitRequest /\ [][NextRequest]_vars

\* The link nodes of the pages of the primary pass: the two usable links, a
\* link on the host without text, a link without href, an off-host link and
\* an off-host link without text.
PrimaryLinkNodes ==
  {LinkNode(Url("", "", "/t1"), <<"A", "d">>),
   LinkNode(Url("", "", "/t2"), <<"b", "o">>),
   LinkNode(Url("", "", "/t2"), <<>>),
   LinkNode(Url("", "", ""), <<"A", "d">>),
   LinkNode(Url("https", "evil.test", "/t1"), <<"A", "d">>),
   LinkNode(Url("https", "evil.test", "/t1"), <<>>)}

\* Their item nodes: without a link, with one link, and one with the two
\* usable links.
PrimaryItemNodes ==
  {<<>>} \cup {<<a>> : a \in PrimaryLinkNodes}
         \cup {<<LinkNode(Url("", "", "/t1"), <<"A", "d">>),
                 LinkNode(Url("", "", "/t2"), <<"b", "o">>)>>}

PrimaryDocuments == UNION {[1..n -> PrimaryItemNodes] : n \in 0..MaxNodes}

PrimaryRequests ==
  {FeedRequest(<<"li", "a", "a">>, m, filter_rules, <<>>) :
     m \in {1, 2}, filter_rules \in {<<>>, << <<"b", "o">> >>}}

\* One call of extract_feed_entries on a page with item nodes the primary
\* pass skips.
InitPrimary ==
  /\ Started
  /\ run \in {ExtractCall(config, page, progress) :
               config \in PrimaryRequests, page \in PrimaryDocuments,
               progress \in Sinks}

SpecPrimary == InitPrimary /\ [][NextExtract]_vars

\* The title and the entry of one link node in the link expansion.
InitTitle == Started /\ run \in TitleCalls(MaxSiblings)

NextTitle == TitleText \/ TitleBuild

SpecTitle == InitTitle /\ [][NextTitle]_vars

\* A configuration refreshed every minute (parse_refresh_interval accepts
\* 0..1440).
EveryMinute ==
  [feed_title |-> "A", max_items |-> 2, refresh_interval_minutes |-> 1]

\* The program started on a database that holds one profile, created at
\* minute 0 and refreshed every minute: the database file outlives the
\* process, and init_db keeps its rows.
InitEnable ==
  /\ profiles = [id \in {1} |-> NewProfileRow(1, EveryMinute, utcnow_text(0))]
  /\ next_id = 2
  /\ feed_items = <<>>
  /\ clock = 0
  /\ th = [t \in Threads |-> IF t = Scheduler THEN Waiting ELSE Idle]
  /\ requests = 0
  /\ stop_event = FALSE
  /\ run = NoRun

\* The scheduler, and requests that disable and enable.
NextEnable ==
  \/ Tick
  \/ refresh_due_profiles(Scheduler)
  \/ \E t \in Handlers : set_profile_active(t) \/ Return(t)

SpecEnable == InitEnable /\ [][NextEnable]_vars

(* ------------------------------- claims ------------------------------- *)

\* The instants should_refresh can be asked about.
Instants == 0..(MaxTime + 2)

\* The entry lists an extraction can return in the current state.
Batches == Pages(utcnow_text(clock))

\* Thread t is inside refresh_profile, past its guards, with the extraction
\* under way.
Extracting(t) == th[t].pc = "rp_extract"

\* C1: over all interleavings of scheduler ticks, manual refreshes and feed
\* reads, at most one execution of refresh_profile is in progress for a
\* profile at any instant: two threads are never both extracting for the
\* same profile_id.
C1_OneRefreshPerProfile ==
  \A t, u \in Threads :
    (t # u /\ Extracting(t) /\ Extracting(u)) => th[t].pid # th[u].pid

\* What a failed refresh of thread t has to leave behind: the stored items of
\* the profile as they were, the profile in status error with the failure
\* message, and an exception for the caller of the route.
FailureRecorded(t, message) ==
  /\ ItemsOf(feed_items', th[t].pid) = ItemsOf(feed_items, th[t].pid)
  /\ th[t].pid \in DOMAIN profiles'
  /\ profiles'[th[t].pid].last_status = "error"
  /\ profiles'[th[t].pid].last_error = message
  /\ th[t].op = "refresh_profile" => th'[t].exc # <<>>

\* C2: when the extraction of a refresh fails, the call leaves the stored
\* items of the profile exactly as they were, the profile gets last_status
\* error with last_error the failure message, and the failure reaches the
\* caller.
C2_FailedRefreshIsRecorded ==
  [][\A t \in Threads :
       /\ \A message \in ErrorMessages :
            RefreshFail(t, message) => FailureRecorded(t, message)
       /\ RefreshRaise(t) => FailureRecorded(t, "timed out")]_vars

\* C3: a reader running beside a refresh never observes the batch of a
\* successful refresh without the status and timestamps written with it:
\* when load_feed_payload lists the items, the items stored are those its
\* profile counts, or its profile carries the stored last_refreshed_at.
C3_ReaderSeesWholeRefresh ==
  \A t \in Handlers :
    (th[t].pc = "feed_items" /\ th[t].profile[1].id \in DOMAIN profiles) =>
      LET seen == th[t].profile[1]
          stored == StoredProfileOf(profiles, feed_items, seen.id)
      IN \/ stored.item_count = seen.item_count
         \/ stored.last_refreshed_at = seen.last_refreshed_at

\* C4: within one pass of refresh_due_profiles the failure of one profile's
\* refresh keeps no later listed profile from its refresh: the pass is never
\* left while a listed profile that is still active and due waits for its
\* turn.
C4_PassReachesEveryDueProfile ==
  th[Scheduler].pc = "dead" =>
    \A k \in 1..Len(th[Scheduler].todo) :
      LET listed == th[Scheduler].todo[k] IN
        ~(/\ listed.active
          /\ should_refresh(listed, clock)
          /\ listed.id \in DOMAIN profiles
          /\ should_refresh(profiles[listed.id], clock))

\* The failed attempt of thread t has stamped the profile with its now.
Stamped(t) ==
  /\ th[t].pid \in DOMAIN profiles'
  /\ profiles'[th[t].pid].last_refreshed_at = th[t].now
  /\ profiles'[th[t].pid].refresh_anchor_at = th[t].now

\* The scheduler tick or a feed read starts the extraction of a refresh.
AutoStart(t) ==
  /\ th[t].op \in {"refresh_due_profiles", "load_feed_payload"}
  /\ th[t].pc = "rp_load"
  /\ th'[t].pc = "rp_extract"

\* C5: a failed attempt stamps last_refreshed_at = refresh_anchor_at = now,
\* and neither the scheduler tick nor a feed read starts another refresh of
\* a profile whose last attempt failed before refresh_interval_minutes have
\* passed since that attempt.
C5_FailureCoolsDown ==
  [][\A t \in Threads :
       /\ \A message \in ErrorMessages : RefreshFail(t, message) => Stamped(t)
       /\ RefreshRaise(t) => Stamped(t)
       /\ (AutoStart(t) /\ profiles[th[t].pid].last_status = "error") =>
            clock >= fromisoformat(profiles[th[t].pid].last_refreshed_at)
                       + profiles[th[t].pid].refresh_interval_minutes]_vars

\* The entry is stored for the profile.
StoredFor(items, id, entry) ==
  \E i \in 1..Len(items) :
    /\ items[i].profile_id = id
    /\ items[i].link = entry.link
    /\ items[i].title = entry.title
    /\ items[i].summary = entry.summary

\* C6: after a successful refresh of an active profile every entry the
\* extractor returned is stored for the profile, the profile has last_status
\* ok, an empty last_error and last_refreshed_at = refresh_anchor_at = the
\* now of the refresh, and the items of the other profiles are unchanged.
C6_SuccessfulRefreshStoresBatch ==
  [][\A t \in Threads : \A entries \in Batches :
       RefreshStore(t, entries) =>
         /\ \A k \in 1..Len(entries) :
              StoredFor(feed_items', th[t].pid, entries[k])
         /\ th[t].pid \in DOMAIN profiles'
         /\ profiles'[th[t].pid].last_status = "ok"
         /\ profiles'[th[t].pid].last_error = ""
         /\ profiles'[th[t].pid].last_refreshed_at = th[t].now
         /\ profiles'[th[t].pid].refresh_anchor_at = th[t].now
         /\ \A id \in 1..next_id :
              id # th[t].pid =>
                ItemsOf(feed_items', id) = ItemsOf(feed_items, id)]_vars

\* The key (profile_id, link) of a stored item.
KeyOf(item) == <<item.profile_id, item.link>>

\* The last entry of the batch with the link: the one whose upsert runs last.
LastWithLink(entries, link) ==
  entries[Max({k \in 1..Len(entries) : entries[k].link = link})]

\* The refresh stored the batch for profile id: every item of the profile
\* whose link the batch returns is where it was, with its discovered_at, and
\* carries the title and summary returned; no item has come to share its key.
UpdatedInPlace(id, entries) ==
  \A i \in 1..Len(feed_items) :
    (/\ feed_items[i].profile_id = id
     /\ \E k \in 1..Len(entries) : entries[k].link = feed_items[i].link) =>
      /\ Len(feed_items') >= i
      /\ feed_items'[i] =
           [feed_items[i] EXCEPT
              !.title = LastWithLink(entries, feed_items[i].link).title,
              !.summary = LastWithLink(entries, feed_items[i].link).summary]
      /\ feed_items'[i].discovered_at = feed_items[i].discovered_at
      /\ \A j \in 1..Len(feed_items') :
           KeyOf(feed_items'[j]) = KeyOf(feed_items[i]) => j = i

\* C7: the stored items hold at most one item per (profile_id, link); a
\* refresh that returns a link already stored for the profile updates the
\* title and summary of that item in place, keeps its discovered_at and adds
\* no second item, over any number of refreshes.
C7_OneItemPerLink ==
  /\ [](\A i, j \in 1..Len(feed_items) :
          KeyOf(feed_items[i]) = KeyOf(feed_items[j]) => i = j)
  /\ [][\A t \in Threads : \A entries \in Batches :
          RefreshStore(t, entries) => UpdatedInPlace(th[t].pid, entries)]_vars

\* An item discovered at 0 with the link l1 carries the title and summary of
\* a later batch, whose other link was discovered at 2.
C7_Witness ==
  \E i, j \in 1..Len(feed_items) :
    /\ feed_items[i] = [profile_id |-> feed_items[j].profile_id,
                        title |-> "t2", link |-> "l1", summary |-> "s",
                        discovered_at |-> <<0>>]
    /\ feed_items[j].link = "l2"
    /\ feed_items[j].discovered_at = <<2>>

\* The instant of a timestamp column, -1 for ''.
InstantOf(value) == IF value = EmptyText THEN -1 ELSE fromisoformat(value)

\* The base of the due time as the specification words it: the later of
\* last_refreshed_at and refresh_anchor_at, whichever are present, and
\* created_at when both are absent.
DueBase(profile) ==
  IF profile.last_refreshed_at = EmptyText
     /\ profile.refresh_anchor_at = EmptyText
  THEN InstantOf(profile.created_at)
  ELSE IF InstantOf(profile.last_refreshed_at)
            >= InstantOf(profile.refresh_anchor_at)
  THEN InstantOf(profile.last_refreshed_at)
  ELSE InstantOf(profile.refresh_anchor_at)

Due(profile, now) ==
  /\ profile.active
  /\ profile.refresh_interval_minutes > 0
  /\ DueBase(profile) >= 0
  /\ now >= DueBase(profile) + profile.refresh_interval_minutes

\* The scheduler tick or a feed read calls refresh_profile in this step.
AutoCall(t) ==
  /\ th'[t].pc = "rp_load"
  /\ th'[t] # th[t]
  /\ th'[t].op \in {"refresh_due_profiles", "load_feed_payload"}

\* The profiles the caller decides on in this step: those it loads from the
\* database in this step, or those its pass has listed.
Examined(t) ==
  IF th[t].pc \in {"idle", "wait"}
  THEN {Listed(StoredProfileOf(profiles, feed_items, id)) : id \in DOMAIN profiles}
  ELSE {th[t].todo[k] : k \in 1..Len(th[t].todo)}

\* The values of a timestamp column: '' and the instants of the clock.
Texts == {EmptyText} \cup {utcnow_text(t) : t \in 0..MaxTime}

\* The profiles should_refresh is asked about, by the attributes it reads:
\* every combination of them, stored by the program or not.
ProfileInputs ==
  [id : {1},
   active : BOOLEAN,
   refresh_interval_minutes : 0..MaxTime,
   last_refreshed_at : Texts,
   refresh_anchor_at : Texts,
   created_at : Texts]

\* should_refresh follows the rule on every input.
DueRuleOnInputs ==
  \A profile \in ProfileInputs : \A now \in Instants :
    /\ should_refresh(profile, now) <=> Due(profile, now)
    /\ (/\ profile.last_refreshed_at = EmptyText
        /\ profile.refresh_anchor_at = EmptyText
        /\ profile.created_at = EmptyText) => ~should_refresh(profile, now)

\* C8: should_refresh(profile) is true exactly when the profile is active,
\* refresh_interval_minutes > 0 and now >= base + refresh_interval_minutes,
\* base being the later of last_refreshed_at and refresh_anchor_at (those
\* present; created_at when both are absent), and false when all three are
\* absent; the scheduler tick and the feed read call refresh_profile only
\* for a profile they found due by this rule, so never for one with
\* refresh_interval_minutes = 0, whatever the time elapsed.
C8_DueRule ==
  /\ [](/\ DueRuleOnInputs
        /\ \A id \in DOMAIN profiles : \A now \in Instants :
             should_refresh(profiles[id], now) <=> Due(profiles[id], now))
  /\ [][\A t \in Threads :
          AutoCall(t) =>
            \E profile \in Examined(t) :
              /\ profile.id = th'[t].pid
              /\ profile.refresh_interval_minutes > 0
              /\ Due(profile, clock)]_vars

\* The scheduler refreshes a due profile while an active profile with
\* refresh_interval_minutes = 0, created two minutes ago, is stored.
C8_Witness ==
  /\ th[Scheduler].pc = "rp_extract"
  /\ \E id \in DOMAIN profiles :
       /\ id # th[Scheduler].pid
       /\ profiles[id].active
       /\ profiles[id].refresh_interval_minutes = 0
       /\ clock >= fromisoformat(profiles[id].created_at) + 2

\* The profile is as create_profile stored it: no operation has written it.
AsCreated(id) ==
  /\ profiles[id] = NewProfileRow(id, to_feed_request(profiles[id]),
                                  profiles[id].created_at)
  /\ ItemsOf(feed_items, id) = <<>>

C10_Disable ==
  [][\A t \in Handlers :
       (/\ SetActiveWrite(t)
        /\ ~th[t].active
        /\ th[t].pid \in DOMAIN profiles) =>
         LET old == profiles[th[t].pid]
             new == profiles'[th[t].pid]
         IN /\ new = [old EXCEPT !.active = FALSE,
                                 !.last_status = "disabled",
                                 !.last_error = ""]
            /\ new.last_refreshed_at = old.last_refreshed_at
            /\ new.refresh_anchor_at = old.refresh_anchor_at
            /\ new.created_at = old.created_at
            /\ to_feed_request(new) = to_feed_request(old)
            /\ feed_items' = feed_items
            /\ \A now \in Instants : ~should_refresh(new, now)]_vars

\* A profile that was refreshed and has stored items is disabled.
C10_Witness ==
  \E id \in DOMAIN profiles :
    /\ ~profiles[id].active
    /\ profiles[id].last_status = "disabled"
    /\ profiles[id].last_refreshed_at # EmptyText
    /\ profiles[id].refresh_interval_minutes > 0
    /\ ItemsOf(feed_items, id) # <<>>

\* The rows set_profile_active can find: every combination of the columns
\* should_refresh reads, on a disabled profile.
EnableInputs ==
  [id : {1},
   active : {FALSE},
   last_status : {"disabled"},
   last_error : {""},
   refresh_interval_minutes : 0..MaxTime,
   last_refreshed_at : Texts,
   refresh_anchor_at : Texts,
   created_at : Texts \ {EmptyText}]

\* A row enabled at t is not due before t + refresh_interval_minutes.
Postponed(row, t) ==
  \A now \in Instants :
    now < t + row.refresh_interval_minutes => ~should_refresh(row, now)

\* Enabling postpones every row, whatever its timestamps.
EnablePostpones ==
  \A row \in EnableInputs : \A t \in 0..MaxTime :
    Postponed(EnableProfileRow(row, utcnow_text(t)), t)

\* C11: enabling a profile at time t sets active, last_status idle, an empty
\* last_error and refresh_anchor_at = t, leaves last_refreshed_at and the
\* stored items as they were, and the profile is not due at any time before
\* t + refresh_interval_minutes, however old last_refreshed_at is.
C11_Enable ==
  /\ []EnablePostpones
  /\ [][\A t \in Handlers :
          (/\ SetActiveWrite(t)
           /\ th[t].active
           /\ th[t].pid \in DOMAIN profiles) =>
            LET old == profiles[th[t].pid]
                new == profiles'[th[t].pid]
            IN /\ new = [old EXCEPT !.active = TRUE,
                                    !.last_status = "idle",
                                    !.last_error = "",
                                    !.refresh_anchor_at = th[t].now]
               /\ new.last_refreshed_at = old.last_refreshed_at
               /\ feed_items' = feed_items
               /\ Postponed(new, fromisoformat(th[t].now))]_vars

\* A profile created at 0 and enabled at 1 is not due at 2, where it would
\* have been due without the enabling.
C11_Witness ==
  \E id \in DOMAIN profiles :
    /\ profiles[id].active
    /\ profiles[id].last_status = "idle"
    /\ profiles[id].created_at = <<0>>
    /\ profiles[id].refresh_anchor_at = <<1>>
    /\ profiles[id].refresh_interval_minutes = 2
    /\ clock = 2
    /\ ~should_refresh(profiles[id], clock)

\* The changes of status the refreshes make.
RefreshTransitions ==
  {<<"idle", "ok">>, <<"idle", "error">>, <<"ok", "ok">>, <<"ok", "error">>,
   <<"error", "ok">>, <<"error", "error">>}

\* The step writes the row of an enabling or of a disabling
\* set_profile_active for the profile.
EnableOrDisable(id) ==
  \E t \in Handlers : SetActiveWrite(t) /\ th[t].pid = id

\* C12: apart from the disable transition (to disabled) and the enable
\* transition (to idle), the last_status of a profile changes only along
\* idle->ok, idle->error, ok->ok, ok->error, error->ok, error->error, in
\* every sequence of create, refresh, edit, purge, enable and disable; a
\* profile in ok or error does not return to idle without being enabled.
C12_StatusTransitions ==
  [][\A id \in DOMAIN profiles \cap DOMAIN profiles' :
       \/ profiles'[id].last_status = profiles[id].last_status
       \/ EnableOrDisable(id)
       \/ <<profiles[id].last_status, profiles'[id].last_status>>
            \in RefreshTransitions]_vars

\* Thread t calls refresh_profile for a profile that is inactive when the
\* call loads it.
LoadsInactive(t) ==
  /\ th[t].pc = "rp_load"
  /\ th[t].pid \in DOMAIN profiles
  /\ ~profiles[th[t].pid].active

\* C13: the active flag gates scheduling and serving: the scheduler tick and
\* the feed read call refresh_profile only for a profile they read as
\* active; a call of refresh_profile that finds the profile inactive raises
\* 'Feed is disabled.' and changes neither the profile nor its items; the
\* feed routes answer 404 for the token of an inactive profile.
C13_ActiveGate ==
  /\ [][\A t \in Threads :
          /\ AutoCall(t) =>
               \E profile \in Examined(t) :
                 profile.id = th'[t].pid /\ profile.active
          /\ (LoadsInactive(t) /\ RefreshLoad(t)) =>
               /\ th'[t] = Returned(t, RuntimeError("Feed is disabled."))
               /\ th'[t].pc # "rp_extract"
               /\ th[t].op = "refresh_profile" =>
                    th'[t].exc = RuntimeError("Feed is disabled.")
               /\ profiles' = profiles
               /\ feed_items' = feed_items]_vars
  /\ [](\A t \in Handlers :
          (/\ th[t].pc = "feed_items"
           /\ th[t].profile[1].id \in DOMAIN profiles
           /\ ~profiles[th[t].profile[1].id].active) =>
            FeedStatus(FeedPayload(t)) = 404)

\* The tick has called refresh_profile for a profile it listed as active and
\* due, and the profile has been disabled since.
C13_Witness ==
  /\ LoadsInactive(Scheduler)
  /\ profiles[th[Scheduler].pid].last_status = "disabled"

\* C14: in every reachable state of every profile last_error is non-empty
\* only if last_status is error, whatever the sequence and interleaving of
\* create, refresh, edit, purge, enable and disable.
C14_ErrorOnlyWithStatusError ==
  \A id \in DOMAIN profiles :
    profiles[id].last_error # "" => profiles[id].last_status = "error"

\* A failed refresh has left its message on a profile.
C14_Witness ==
  \E id \in DOMAIN profiles :
    /\ profiles[id].last_status = "error"
    /\ profiles[id].last_error \in ErrorMessages

\* C15: every refresh attempt advances last_refreshed_at and
\* refresh_anchor_at: in every execution, overlapping refreshes of one
\* profile and refreshes overlapping an enable included, neither timestamp
\* of a profile is replaced by an earlier value.
C15_TimestampsAdvance ==
  [][\A id \in DOMAIN profiles \cap DOMAIN profiles' :
       /\ InstantOf(profiles'[id].last_refreshed_at)
            >= InstantOf(profiles[id].last_refreshed_at)
       /\ InstantOf(profiles'[id].refresh_anchor_at)
            >= InstantOf(profiles[id].refresh_anchor_at)]_vars

\* C16: deleting a profile removes the profile and all of its stored items:
\* when delete_profile returns, get_profile_by_id returns nothing and
\* list_feed_items returns no item for the id; deleting an unknown profile
\* raises 'Profile not found.' and changes nothing.
C16_Delete ==
  [][\A t \in Handlers :
       /\ DeleteWrite(t) =>
            /\ th'[t] = Idle
            /\ get_profile_by_id(profiles', feed_items', th[t].pid) = <<>>
            /\ \A limit \in 1..(Len(feed_items) + 1) :
                 list_feed_items(feed_items', th[t].pid, limit) = <<>>
            /\ \A id \in DOMAIN profiles :
                 id # th[t].pid =>
                   /\ id \in DOMAIN profiles' /\ profiles'[id] = profiles[id]
                   /\ ItemsOf(feed_items', id) = ItemsOf(feed_items, id)
       /\ \A id \in ProfileIds :
            (/\ StoreCall(t, "delete_profile", id, <<>>, FALSE)
             /\ id \notin DOMAIN profiles) =>
              /\ th'[t].exc = ValueError("Profile not found.")
              /\ profiles' = profiles
              /\ feed_items' = feed_items]_vars

\* delete_profile has returned for the only profile created: nothing of it
\* is left.
C16_Witness ==
  /\ th["request"] = Idle
  /\ requests = MaxRequests
  /\ next_id = 2
  /\ profiles = << >>
  /\ feed_items = <<>>
  /\ th[Scheduler].pc = "wait"
  /\ clock = MaxTime

\* A rule line of the include or of the exclude rules does not parse.
Malformed(config) ==
  \/ ~parse_filter_rules(config.filter_rules).ok
  \/ ~parse_filter_rules(config.exclude_filter_rules).ok

\* C17: a malformed filter rule in the include or exclude rules makes
\* extract_feed_entries fail with a validation error before any fetch: on
\* such a run fetch_html is never called, and the run cannot return.
C17_MalformedRuleFailsBeforeFetch ==
  (run.pc # "none" /\ Malformed(run.config)) =>
    /\ run.fetches = 0
    /\ run.pc # "returned"

\* An href that resolves to another host than the source's or to a scheme
\* other than http and https.
Blocked(config, href) ==
  /\ href # Url("", "", "")
  /\ LET joined == urljoin(config.source_url, href) IN
       \/ joined.scheme \notin {"http", "https"}
       \/ joined.netloc # config.source_url.netloc

\* The hrefs of the link nodes of the matched item nodes.
HrefsIn(nodes) ==
  UNION {{nodes[i].element.href}
           \cup {nodes[i].links[j].href : j \in 1..Len(nodes[i].links)} :
         i \in 1..Len(nodes)}

\* C18: when an href in the matched item nodes resolves to another host or
\* to a scheme other than http and https, the extraction fails as a whole:
\* it never returns entries while leaving such a link out.
C18_BlockedLinkFailsExtraction ==
  run.pc = "returned" =>
    \A href \in HrefsIn(run.nodes) : ~Blocked(run.config, href)

\* A link node with a usable title and an on-host link.
Usable(config, link_node) ==
  /\ Len(link_node.text) > 0
  /\ link_node.href # Url("", "", "")
  /\ ~Blocked(config, link_node.href)

\* One item node at least, each holding exactly one link node, with a usable
\* title and an on-host link, and no filter rules; the item nodes are the
\* "li" nodes.
OneToOne(config, page) ==
  /\ config.item_selector = "li"
  /\ Len(page) > 0
  /\ \A i \in 1..Len(page) : Len(page[i]) = 1 /\ Usable(config, page[i][1])
  /\ Len(config.filter_rules) = 0
  /\ Len(config.exclude_filter_rules) = 0

\* The entry of an item node that holds one usable link node.
EntryOf(config, node, now) ==
  FeedEntry(node[1].text, urljoin(config.source_url, node[1].href), "", now)

\* C19: given N item nodes each holding exactly one usable title and one
\* on-host link, and no filter rules, extract_feed_entries returns exactly
\* min(N, max_items) entries, those of the first min(N, max_items) item
\* nodes in document order; once the page is fetched it does not raise.
C19_OneEntryPerItemNode ==
  (run.pc # "none" /\ OneToOne(run.config, run.page)) =>
    /\ run.pc = "raised" => (run.nodes = <<>> /\ run.exc \in FetchErrors)
    /\ run.pc = "filter" => Len(run.entries) > 0
    /\ run.pc = "returned" =>
         LET count == IF Len(run.page) < run.config.max_items
                        THEN Len(run.page) ELSE run.config.max_items
         IN run.result = [i \in 1..count |->
                            EntryOf(run.config, run.page[i], utcnow_text(clock))]

\* A call has returned max_items entries for a page of two item nodes that
\* hold the same link.
C19_Witness ==
  /\ run.pc = "returned"
  /\ OneToOne(run.config, run.page)
  /\ Len(run.page) = 2
  /\ run.page[1][1].href = run.page[2][1].href
  /\ Len(run.result) = run.config.max_items

\* C20: the link expansion runs only when the primary pass gave at most one
\* entry and some item node holds more than one link node; when it has run,
\* the entries kept are the primary pass's unless the expansion's are
\* strictly more, and the call returns at least as many entries as the
\* primary pass gave.
C20_LinkExpansion ==
  (run.pc # "none" /\ run.expanded) =>
    /\ Len(run.primary) <= 1
    /\ \E i \in 1..Len(run.nodes) : Len(run.nodes[i].links) > 1
    /\ run.pc \in {"filter", "returned"} =>
         /\ \/ run.entries = run.primary
            \/ /\ run.entries = run.container_entries
               /\ Len(run.container_entries) > Len(run.primary)
         /\ Len(run.container_entries) <= Len(run.primary) =>
              run.entries = run.primary
         /\ Len(run.entries) >= Len(run.primary)
    /\ run.pc = "returned" => Len(run.result) >= Len(run.primary)

\* The expansion replaced the one entry of the primary pass by two.
C20_Witness ==
  /\ run.pc = "returned"
  /\ run.expanded
  /\ Len(run.primary) = 1
  /\ Len(run.result) = 2
  /\ run.result = run.container_entries

\* C21: every list extract_feed_entries returns has pairwise distinct
\* links, whether it comes from the primary pass or from the link expansion.
C21_DistinctLinks ==
  run.pc = "returned" =>
    \A i, j \in 1..Len(run.result) :
      run.result[i].link = run.result[j].link => i = j

\* The selectors that stand for the current node.
ScopeSelectors == {":scope", "self"}

\* The call is past soup.select(config.item_selector): it did not fail in
\* fetch_html.
PastSelect ==
  /\ run.pc \notin {"none", "fetch_html", "select"}
  /\ ~(run.pc = "raised" /\ run.exc \in FetchErrors)

\* C26: ':scope' and 'self' mean the current node itself for each of
\* item_selector, title_selector and link_selector: as item_selector they
\* make the document root the single item node, so that the extraction does
\* not fail for want of item nodes; as title and link selector they resolve
\* to the item node, whose text and href make the entry.
C26_ScopeSelectors ==
  /\ (PastSelect /\ run.config.item_selector \in ScopeSelectors) =>
       run.nodes = <<Container(Descendants(run.page))>>
  /\ (run.pc = "returned" /\ run.config.title_selector \in ScopeSelectors
        /\ run.config.link_selector \in ScopeSelectors) =>
       \A k \in 1..Len(run.result) :
         \E i \in 1..Len(run.nodes) :
           /\ run.result[k].title = run.nodes[i].element.text
           /\ run.result[k].link =
                urljoin(run.config.source_url, run.nodes[i].element.href)

\* C27: extract_feed_entries never returns an empty list and never more
\* than max_items entries: it fails with "No topic nodes matched the item
\* selector." when no item node matches, and with "Matched nodes did not
\* contain usable titles and links." when no entry survives the passes and
\* their filters.
C27_ResultSize ==
  /\ run.pc = "returned" =>
       /\ Len(run.result) >= 1
       /\ Len(run.result) <= run.config.max_items
  /\ (PastSelect /\ Len(select(run.page, run.config.item_selector)) = 0) =>
       /\ run.pc = "raised"
       /\ run.exc = ValueError("No topic nodes matched the item selector.")
  /\ run.pc = "returned" => Len(run.entries) >= 1
  /\ (run.pc = "raised" /\ run.exc = ValueError(
         "Matched nodes did not contain usable titles and links.")) =>
       Len(run.nodes) >= 1 /\ Len(run.entries) = 0

\* A page of two item nodes with usable links whose titles the include rule
\* 'bo' rejects: the call has failed for want of usable entries.
C27_Witness ==
  /\ run.pc = "raised"
  /\ Len(run.nodes) = 2
  /\ \A i \in 1..2 : Len(run.nodes[i].links) = 1
                       /\ Usable(run.config, run.nodes[i].links[1])
  /\ run.config.filter_rules = << <<"b", "o">> >>
  /\ run.exc = ValueError(
       "Matched nodes did not contain usable titles and links.")

\* What extract_feed_entries(config) gives on a page it has fetched when it
\* is called without a sink: the statements of the function but for the
\* calls of emit_progress.
Extraction(config, page, now) ==
  LET nodes == select(page, config.item_selector)
      include == parse_filter_rules(config.filter_rules)
      exclude == parse_filter_rules(config.exclude_filter_rules)
      rules == [include |-> include.value, exclude |-> exclude.value]
      primary == extract_entries_from_item_nodes(nodes, config, now, rules)
      container_entries ==
        extract_entries_from_link_collections(nodes, config, now, rules)
      entries ==
        IF Len(container_entries.value) > Len(primary.value)
          THEN container_entries.value ELSE primary.value
      Final(kept) ==
        IF Len(kept) = 0
          THEN Raises("Matched nodes did not contain usable titles and links.")
          ELSE Returns(Slice(apply_entry_filters(kept, rules.include,
                                                 rules.exclude),
                             config.max_items))
  IN
  IF Len(nodes) = 0 THEN Raises("No topic nodes matched the item selector.")
  ELSE IF ~include.ok THEN include
  ELSE IF ~exclude.ok THEN exclude
  ELSE IF ~primary.ok THEN primary
  ELSE IF ~should_use_container_link_fallback(nodes, primary.value, config)
    THEN Final(primary.value)
  ELSE IF ~container_entries.ok THEN container_entries
  ELSE Final(entries)

KeptTitles == {run.kept[k].title : k \in 1..Len(run.kept)}

\* The titles of the entries of a set of indexes.
TitlesOf(indexes) == {FilterEntries[i].title : i \in indexes}

\* C22: parse_filter_expression implements Or := And (OR And)*,
\* And := Primary (AND Primary)*, Primary := Term | '(' Or ')': every
\* expression of the grammar parses, whatever the case of its keywords, and
\* its tree accepts exactly the entries the boolean formula accepts, AND
\* binding tighter than OR and parentheses overriding that.
C22_GrammarAndPrecedence ==
  (run.pc \in {"evaluate_filter_expression", "evaluated", "raised"}
     /\ run.defect = "none") =>
    /\ run.pc # "raised"
    /\ run.pc = "evaluated" => KeptTitles = TitlesOf(run.accepts)

\* '(B or "d") AND "d"' has kept the titles with d, and not the title b
\* that 'B or "d" AND "d"' accepts.
C22_Witness ==
  /\ run.pc = "evaluated"
  /\ run.expression = <<"(", "B", " ", "o", "r", " ", "\"", "d", "\"", ")",
                        " ", "A", "N", "D", " ", "\"", "d", "\"">>
  /\ KeptTitles = {<<"d">>, <<"A", "d">>, <<"b", "D">>, <<"a", "b", "d">>}

\* C24: a rule line with unbalanced parentheses, with an empty term (an
\* empty quoted literal inside an expression included), with tokens after a
\* complete expression, or with no text is rejected by
\* parse_filter_expression: none yields a tree.
C24_DefectiveLineIsRejected ==
  (run.pc \in {"evaluate_filter_expression", "evaluated", "raised"}
     /\ run.defect # "none") =>
    run.pc = "raised"

\* The entries the composition of the two rule sets keeps: those a rule of
\* the include set accepts (any entry when that set has no rule) that no
\* rule of the exclude set accepts.
Composition ==
  {i \in 1..Len(FilterEntries) :
     /\ run.accepts.include = {} \/ \E a \in run.accepts.include : i \in a
     /\ ~\E a \in run.accepts.exclude : i \in a}

\* C23: an entry is kept iff (there is no include rule or at least one
\* include line is true for it) and no exclude line is true for it; the
\* lines of a rule set are OR-ed, and an entry an include line matches is
\* still removed when an exclude line matches it.
C23_FilterComposition ==
  run.pc = "returned" =>
    /\ KeptTitles = TitlesOf(Composition)
    /\ \A k \in 1..Len(run.kept) - 1 :
         \E i, j \in 1..Len(FilterEntries) :
           i < j /\ FilterEntries[i] = run.kept[k]
                 /\ FilterEntries[j] = run.kept[k + 1]

\* Include lines 'a' and 'B', exclude line '"d" and B': the titles with a
\* or b are kept but for 'bD' and 'abd', which the include lines match too.
C23_Witness ==
  /\ run.pc = "returned"
  /\ run.filter_rules = <<<<"a">>, <<"B">>>>
  /\ run.exclude_filter_rules =
       <<<<"\"", "d", "\"", " ", "a", "n", "d", " ", "B">>>>
  /\ KeptTitles = {<<"A">>, <<"b">>, <<"a", "B">>, <<"A", "d">>}

\* Two characters that are the same letter, ignoring case.
SameLetter(c, d) ==
  \/ c = d
  \/ \E i \in 1..Len(UpperCase) :
       {c, d} = {UpperCase[i], LowerCase[i]}

\* Whether the term occurs in the title as a substring, ignoring case.
OccursIn(term, title) ==
  \E start \in 0..(Len(title) - Len(term)) :
    \A i \in 1..Len(term) : SameLetter(term[i], title[start + i])

\* Whether the title, ignoring case, matches a glob: each character of
\* the glob takes a stretch of the title that ends at cut[i], a '*' any
\* stretch, a '?' one character, a letter that letter.
GlobMatches(title, glob) ==
  \E cut \in [0..Len(glob) -> 0..Len(title)] :
    /\ cut[0] = 0
    /\ cut[Len(glob)] = Len(title)
    /\ \A i \in 1..Len(glob) :
         IF glob[i] = "*" THEN cut[i] >= cut[i - 1]
         ELSE /\ cut[i] = cut[i - 1] + 1
              /\ glob[i] = "?" \/ SameLetter(glob[i], title[cut[i]])

\* The glob of a wildcard term: '*' added at the start and at the end when
\* not already there.
GlobOf(term) ==
  (IF term[1] = "*" THEN <<>> ELSE <<"*">>) \o term
    \o (IF term[Len(term)] = "*" THEN <<>> ELSE <<"*">>)

\* C25: a term without '*' or '?' matches iff it occurs in the title as a
\* substring ignoring case; a term with '*' or '?' matches iff the title,
\* ignoring case, matches the glob that has '*' added at the start and at
\* the end when not already there.
C25_TermEvaluation ==
  run.pc = "matched" =>
    (run.matches <=>
       IF \E i \in 1..Len(run.term) : run.term[i] \in {"*", "?"}
         THEN GlobMatches(run.entry.title, GlobOf(run.term))
         ELSE OccursIn(run.term, run.entry.title))

\* 'a?' has matched the title 'bAb': past the start of it and in the
\* other case.
C25_Witness ==
  /\ run.pc = "matched"
  /\ run.term = <<"a", "?">>
  /\ run.entry.title = <<"b", "A", "b">>
  /\ run.matches

\* The names of the events the consumer yielded.
YieldedNames == [i \in 1..Len(run.yielded) |-> run.yielded[i][1]]

\* C29: every preview stream is ordered and finite: the stage events come
\* in the order they were put, before the outcome; exactly one result or
\* error event follows them; a single done event is last; and the consumer
\* ends once the call has returned or failed, whatever the failure.
C29_StreamIsOrderedAndFinite ==
  /\ run.yielded = SelectSeq(SubSeq(run.events, 1, run.taken),
                             LAMBDA chunk : chunk[1] # "None")
  /\ run.consumer = "closed" =>
       LET n == Len(run.yielded) IN
       /\ n >= 3
       /\ YieldedNames[n] = "done"
       /\ YieldedNames[n - 1] \in {"result", "error"}
       /\ \A i \in 1..(n - 2) : YieldedNames[i] = "stage"

\* The scheduler is in a tick: between the listing of the profiles and the
\* end of the loop over them.
InTick == th[Scheduler].pc \notin {"wait", "stopped", "dead"}

C31_SourceUrlIsHttpWithHost ==
  (run.pc \in {"fetch_mode", "FeedRequest", "returned", "raised"}
     /\ (run.url.scheme \notin HttpSchemes \/ run.url.host = <<>>)) =>
    /\ run.pc = "raised"
    /\ run.source_url = <<>>
    /\ run.exc = ValueError("Source URL must be a full http or https URL.")

\* Thread t runs the refresh load_feed_payload started.
FeedRefresh(t) == th[t].op = "load_feed_payload" /\ th[t].pc = "rp_extract"

\* C32: load_feed_payload refreshes the profile first exactly when
\* should_refresh is true for it; when that refresh fails the read still
\* succeeds, with the profile marked error and the stored items of the
\* profile as they were, of which it serves at most max_items; when the
\* profile is not due no extraction runs.
C32_LazyRefreshOnRead ==
  [][\A t \in Handlers :
       /\ \A token \in ProfileIds :
            FeedCall(t, token) =>
              LET p == get_profile_by_token(profiles, feed_items, token) IN
              /\ th'[t].pc = "rp_load" <=>
                   (p # <<>> /\ should_refresh(p[1], clock))
              /\ (p # <<>> /\ ~should_refresh(p[1], clock)) =>
                   th'[t].pc = "feed_items"
       /\ (FeedRefresh(t)
             /\ (RefreshRaise(t)
                   \/ \E message \in ErrorMessages : RefreshFail(t, message))) =>
            /\ th'[t].pc = "feed_reload"
            /\ th'[t].exc = <<>>
            /\ th[t].pid \in DOMAIN profiles' =>
                 profiles'[th[t].pid].last_status = "error"
       /\ (th[t].pc = "feed_items" /\ FeedItems(t)) =>
            Len(FeedPayload(t)[2]) <= FeedPayload(t)[1].max_items]_vars

\* An item node the primary pass is to skip: its title node or its link
\* node is missing, its link node has no href, or its title text is empty.
Skippable(node, config) ==
  LET title_node == select_node_with_scope(node, config.title_selector)
      link_node == select_node_with_scope(node, config.link_selector)
  IN \/ Len(title_node) = 0
     \/ Len(link_node) = 0
     \/ link_node[1].href = Url("", "", "")
     \/ Len(title_node[1].text) = 0

\* What the primary pass gives on the item nodes that are not to be skipped.
WithoutSkipped ==
  extract_entries_from_item_nodes(
    SelectSeq(run.nodes, LAMBDA node : ~Skippable(node, run.config)),
    run.config, utcnow_text(clock), run.rules)

\* The primary pass raised: normalize_topic_link refused a link before any
\* link expansion.
PrimaryRaised ==
  /\ run.pc = "raised"
  /\ ~run.expanded
  /\ run.exc \in {ValueError("Topic links must resolve to http or https URLs."),
                  ValueError("Off-site topic links are blocked by default.")}

\* C33: in the primary pass an item node whose title node or link node is
\* missing, whose link node has no href or whose title text is empty is
\* skipped: the pass gives what it gives on the other item nodes alone, and
\* it fails only where it fails on them.
C33_SkippedItemNodes ==
  /\ run.pc \in {"fallback", "filter", "returned"} =>
       WithoutSkipped.ok /\ run.primary = WithoutSkipped.value
  /\ PrimaryRaised =>
       ~WithoutSkipped.ok /\ run.exc = ValueError(WithoutSkipped.error)

\* The words of the texts of children i to last, in their order.
RECURSIVE WordsOf(_, _, _)
WordsOf(siblings, i, last) ==
  IF i > last THEN <<>>
  ELSE split(siblings[i].text) \o WordsOf(siblings, i + 1, last)

\* The title of the link that is child k: the words of the link and of the
\* children around it, back to and on to the nearest line break or anchor,
\* with one space between two words.
AssembledTitle(siblings, k) ==
  LET stops == {i \in 1..Len(siblings) :
                  i # k /\ siblings[i].name \in {"br", "a"}}
      first == CHOOSE i \in 1..k :
                 /\ \A j \in i..k : j \notin stops
                 /\ i = 1 \/ (i - 1) \in stops
      last == CHOOSE i \in k..Len(siblings) :
                /\ \A j \in k..i : j \notin stops
                /\ i = Len(siblings) \/ (i + 1) \in stops
  IN join(WordsOf(siblings, first, last))

\* C34: in link-expansion mode with title_selector equal to link_selector
\* the title of a link is assembled from its siblings inside its parent:
\* the non-empty texts before and after it, up to the nearest line break or
\* other anchor, around its own text in their order, with whitespace
\* collapsed; a link with nothing around it has its own text.
C34_InlineTitle ==
  (run.pc \in {"build_entry_from_nodes", "built"}
     /\ run.config.title_selector = run.config.link_selector) =>
    run.title_text = AssembledTitle(run.siblings, run.k)

\* The columns of a row that hold the configuration, and the others.
Configuration(row) ==
  [feed_title |-> row.feed_title, max_items |-> row.max_items,
   refresh_interval_minutes |-> row.refresh_interval_minutes]

Kept(row) ==
  [id |-> row.id, feed_token |-> row.feed_token, active |-> row.active,
   last_refreshed_at |-> row.last_refreshed_at,
   refresh_anchor_at |-> row.refresh_anchor_at, created_at |-> row.created_at]

\* C35: update_profile replaces every configuration field by the new
\* values, sets last_status to idle and clears last_error, and leaves the
\* active flag, last_refreshed_at, refresh_anchor_at, the feed token, the
\* stored items and the other profiles unchanged; on an unknown profile it
\* raises 'Profile not found.' and never writes.
C35_Edit ==
  [][\A t \in Handlers :
       /\ UpdateWrite(t) =>
            /\ DOMAIN profiles' = DOMAIN profiles
            /\ th[t].pid \in DOMAIN profiles
            /\ Configuration(profiles'[th[t].pid]) = th[t].config[1]
            /\ profiles'[th[t].pid].last_status = "idle"
            /\ profiles'[th[t].pid].last_error = ""
            /\ Kept(profiles'[th[t].pid]) = Kept(profiles[th[t].pid])
            /\ \A id \in DOMAIN profiles \ {th[t].pid} :
                 profiles'[id] = profiles[id]
            /\ feed_items' = feed_items
       /\ \A id \in ProfileIds \ DOMAIN profiles, config \in FeedRequests :
            StoreCall(t, "update_profile", id, <<config>>, FALSE) =>
              /\ th'[t].pc = "done"
              /\ th'[t].exc = ValueError("Profile not found.")
              /\ profiles' = profiles /\ feed_items' = feed_items
       /\ (th[t].op = "update_profile" /\ th[t].pc = "done") =>
            th'[t] \in {th[t], Idle}]_vars

\* A profile that was refreshed with the configuration A, which stored
\* items, and then edited to the configuration B.
C35_Witness ==
  \E id \in DOMAIN profiles :
    /\ profiles[id].feed_title = "B"
    /\ profiles[id].last_status = "idle"
    /\ profiles[id].last_refreshed_at # EmptyText
    /\ Len(ItemsOf(feed_items, id)) > 0

\* C36: in every reachable state of every profile, last_status is disabled
\* if and only if active is false, whatever the order of create, disable,
\* enable, edit, purge and refresh, a refresh that writes its outcome after
\* the profile was disabled included.
C36_DisabledIffInactive ==
  \A id \in DOMAIN profiles :
    profiles[id].last_status = "disabled" <=> ~profiles[id].active

\* C37: in every reachable state of every profile, refresh_anchor_at is
\* not empty and not earlier than last_refreshed_at (an empty one counting
\* as earliest), so that the due time is refresh_anchor_at plus the
\* interval and should_refresh never falls back on created_at.
C37_AnchorLeads ==
  \A id \in DOMAIN profiles :
    /\ profiles[id].refresh_anchor_at # EmptyText
    /\ InstantOf(profiles[id].refresh_anchor_at)
         >= InstantOf(profiles[id].last_refreshed_at)
    /\ DueBase(profiles[id]) = InstantOf(profiles[id].refresh_anchor_at)

\* C38: in every reachable state every stored item belongs to an existing
\* profile, also when delete_profile runs while a refresh of the profile
\* is in flight.
C38_ItemsHaveTheirProfile ==
  \A i \in 1..Len(feed_items) : feed_items[i].profile_id \in DOMAIN profiles

\* C39: the scheduler loop stops only because the stop event is set: no
\* outcome of a refresh inside a tick ends the thread, the 'Profile not
\* found.' of a profile deleted after the tick listed it included.
C39_OnlyStopEndsTheLoop ==
  /\ th[Scheduler].pc # "dead"
  /\ th[Scheduler].pc = "stopped" => stop_event

\* The refresh_profile of thread t writes its outcome in this step.
RefreshWrite(t) ==
  /\ th[t].pc = "rp_extract"
  /\ th[t].pid \in DOMAIN profiles
  /\ \/ \E message \in ErrorMessages : RefreshFail(t, message)
     \/ \E entries \in ExtractedEntries(th[t].config[1], utcnow_text(clock)) :
          RefreshStore(t, entries)

\* The profile was enabled at the instant its refresh_anchor_at names, after
\* the refresh of thread t took its now: set_profile_active wrote the
\* anchor (a refresh writes last_refreshed_at with it, and the profile was
\* created at minute 0).
EnabledSince(t) ==
  LET profile == profiles[th[t].pid] IN
    /\ profile.active
    /\ profile.refresh_anchor_at # profile.last_refreshed_at
    /\ InstantOf(profile.refresh_anchor_at) > InstantOf(th[t].now)

\* C40: the postponement made by enabling is not lost to a concurrent
\* refresh: a profile enabled at time t is not due before
\* t + refresh_interval_minutes, also after a refresh that took its now
\* before t (and before a disable in between) has written its timestamps
\* after the enable.
C40_EnablePostpones ==
  [][\A t \in Threads :
       (RefreshWrite(t) /\ EnabledSince(t)) =>
         \A now \in 0..MaxTime + 1 :
           now < InstantOf(profiles[th[t].pid].refresh_anchor_at)
                   + profiles[th[t].pid].refresh_interval_minutes
             => ~should_refresh(profiles'[th[t].pid], now)]_vars

====
